---------------------------- MODULE Spec2Model ----------------------------
(***************************************************************************)
(* Secure credential lifecycle of the BYOK extension: SecureKeyManager     *)
(* (envelope encryption, rotation record, usage audit) and the             *)
(* BYOKStorageService.getAPIKey legacy migration built on it.              *)
(*                                                                         *)
(* Strings are sequences of character codes, buffers are sequences of      *)
(* bytes.  The secret store is a map from key strings to stored values.    *)
(***************************************************************************)
EXTENDS Integers, Sequences, FiniteSets, TLC

(***************************************************************************)
(* Bounds of the model.                                                    *)
(***************************************************************************)
\* number of distinct values crypto.randomBytes(16) can return for an IV
NumIVs == 2
\* cap on the successful getKey calls counted per identifier
MaxRequests == 2
\* number of distinct values crypto.randomBytes(32) can return for the salt
NumSalts == 1
\* the clock stops at this many days
MaxDays == 90
\* the largest maxRetries passed to executeWithRetry
MaxRetriesInput == 3
\* Math.random() returns one of the JitterSteps values k / JitterSteps
JitterSteps == 2
\* calls each of the overlapping callers makes at most
MaxCalls == 2

(***************************************************************************)
(* Program constants.                                                      *)
(***************************************************************************)
\* crypto.randomBytes(16), combined.slice(0, 16)
IV_BYTES == 16
\* combined.slice(16, 32): the GCM tag is 16 bytes
TAG_BYTES == 16
\* pbkdf2Sync(machineId, salt, 100000, 32, 'sha256'): key length
KEY_BYTES == 32
\* crypto.randomBytes(32) for the salt
SALT_BYTES == 32
\* apiKey.length >= 20
MIN_KEY_LENGTH == 20
\* autoRotateAfterDays: 90
DEFAULT_ROTATE_DAYS == 90
\* 1000 * 60 * 60 * 24
MS_PER_DAY == 86400000
\* the clock counts hours: Date.getTime() is this many milliseconds per tick
MS_PER_TICK == 3600000
\* RetryStrategy.DEFAULT_OPTIONS
DEFAULT_MAX_RETRIES == 3
DEFAULT_INITIAL_DELAY_MS == 1000
DEFAULT_MAX_DELAY_MS == 30000
DEFAULT_BACKOFF_MULTIPLIER == 2
\* Math.random() * 0.1 * baseDelay: the jitter is at most a tenth of the base
JITTER_DIVISOR == 10

(***************************************************************************)
(* Secrets used as inputs (character codes).                               *)
(***************************************************************************)
\* "sk_live-0123456789ab" (20 characters)
KeyA ==
    <<115, 107, 95, 108, 105, 118, 101, 45, 48, 49, 50, 51, 52, 53, 54, 55, 56, 57, 97, 98>>
\* "AIzaSyB-0123456789_abcdef" (25 characters)
KeyB ==
    <<65, 73, 122, 97, 83, 121, 66, 45, 48, 49, 50, 51, 52, 53, 54, 55, 56, 57, 95, 97, 98, 99, 100, 101, 102>>
\* "test-api-key-12345" (18 characters), the key of the test suite
TestKey ==
    <<116, 101, 115, 116, 45, 97, 112, 105, 45, 107, 101, 121, 45, 49, 50, 51, 52, 53>>
\* "short" (5 characters), the invalid key of the test suite
ShortKey ==
    <<115, 104, 111, 114, 116>>
\* "sk.live.0123456789abcdef" (24 characters, '.' is outside the class)
DotKey ==
    <<115, 107, 46, 108, 105, 118, 101, 46, 48, 49, 50, 51, 52, 53, 54, 55, 56, 57, 97, 98, 99, 100, 101, 102>>
\* "machine-1", "machine-2": values of vscode.env.machineId
Machine1 ==
    <<109, 97, 99, 104, 105, 110, 101, 45, 49>>
Machine2 ==
    <<109, 97, 99, 104, 105, 110, 101, 45, 50>>

Secrets == {KeyA, KeyB, TestKey, ShortKey, DotKey}
MachineIds == {Machine1, Machine2}

(***************************************************************************)
(* Encodings: UTF-8 and base64, as Buffer implements them.                 *)
(***************************************************************************)
RECURSIVE SumSeq(_)
SumSeq(s) == IF s = <<>> THEN 0 ELSE Head(s) + SumSeq(Tail(s))

RECURSIVE Flatten(_)
Flatten(ss) == IF ss = <<>> THEN <<>> ELSE Head(ss) \o Flatten(Tail(ss))

\* Buffer.from(text, 'utf8') / cipher.update(text, 'utf8'), code units < 2048
Utf8Encode(text) ==
    Flatten([i \in 1..Len(text) |->
        IF text[i] < 128 THEN <<text[i]>>
        ELSE <<192 + (text[i] \div 64), 128 + (text[i] % 64)>>])

\* buffer.toString('utf8'), for well-formed one- and two-byte sequences
RECURSIVE Utf8Decode(_)
Utf8Decode(bytes) ==
    IF bytes = <<>> THEN <<>>
    ELSE IF bytes[1] < 128 \/ Len(bytes) = 1
         THEN <<bytes[1]>> \o Utf8Decode(Tail(bytes))
         ELSE <<(bytes[1] - 192) * 64 + (bytes[2] - 128)>>
              \o Utf8Decode(Tail(Tail(bytes)))

\* the base64 alphabet: A-Z a-z 0-9 + /
B64Char(n) ==
    IF n < 26 THEN 65 + n
    ELSE IF n < 52 THEN 97 + (n - 26)
    ELSE IF n < 62 THEN 48 + (n - 52)
    ELSE IF n = 62 THEN 43 ELSE 47

IsB64Char(c) ==
    \/ c \in 65..90
    \/ c \in 97..122
    \/ c \in 48..57
    \/ c \in {43, 47}

B64Value(c) ==
    IF c \in 65..90 THEN c - 65
    ELSE IF c \in 97..122 THEN c - 97 + 26
    ELSE IF c \in 48..57 THEN c - 48 + 52
    ELSE IF c = 43 THEN 62 ELSE 63

\* buffer.toString('base64'): three bytes to four characters, '=' padding
B64Encode(bytes) ==
    LET n == Len(bytes)
        at(i) == IF i <= n THEN bytes[i] ELSE 0
    IN  [k \in 1..(4 * ((n + 2) \div 3)) |->
            LET q == (k - 1) \div 4
                r == (k - 1) % 4
                b1 == at(3 * q + 1)
                b2 == at(3 * q + 2)
                b3 == at(3 * q + 3)
            IN  CASE r = 0 -> B64Char(b1 \div 4)
                  [] r = 1 -> B64Char((b1 % 4) * 16 + (b2 \div 16))
                  [] r = 2 -> IF 3 * q + 2 > n THEN 61
                              ELSE B64Char((b2 % 16) * 4 + (b3 \div 64))
                  [] OTHER -> IF 3 * q + 3 > n THEN 61
                              ELSE B64Char(b3 % 64)]

\* Buffer.from(text, 'base64'): characters outside the alphabet are skipped
B64Decode(text) ==
    LET s == SelectSeq(text, IsB64Char)
        m == Len(s)
        v(i) == B64Value(s[i])
    IN  [j \in 1..((m * 6) \div 8) |->
            LET bit == (j - 1) * 8
                i == (bit \div 6) + 1
                r == bit % 6
            IN  CASE r = 0 -> v(i) * 4 + (v(i + 1) \div 16)
                  [] r = 2 -> (v(i) % 16) * 16 + (v(i + 1) \div 4)
                  [] OTHER -> (v(i) % 4) * 64 + v(i + 1)]

(***************************************************************************)
(* The secret store (vscode.SecretStorage): a map from keys to values.     *)
(***************************************************************************)
EmptyMap == [k \in {} |-> <<>>]

\* storage.get(key): defined iff the key is present
Has(store, k) == k \in DOMAIN store

\* storage.store(key, value)
Put(store, k, v) == [x \in (DOMAIN store) \cup {k} |-> IF x = k THEN v ELSE store[x]]

\* storage.delete(key): no error when the key is absent
Remove(store, k) == [x \in (DOMAIN store) \ {k} |-> store[x]]

\* `!value` of a string read from the store: undefined or the empty string
Falsy(store, k) == ~Has(store, k) \/ store[k] = <<>>

EnvelopeKey(modelId) == "byok.key." \o modelId
RotationKey(modelId) == "byok.rotation." \o modelId
SaltKey == "byok.encryption.salt"

(***************************************************************************)
(* Envelope crypto.  AES-256-GCM and PBKDF2 are stood in for by functions  *)
(* with the same interface: a keystream cipher whose tag depends on the    *)
(* key, the IV and every ciphertext byte.                                  *)
(***************************************************************************)
\* crypto.pbkdf2Sync(password, salt, 100000, keylen, 'sha256')
PBKDF2(password, salt, keylen) ==
    LET p == SumSeq(password)
        s == SumSeq(salt)
    IN  [i \in 1..keylen |-> (p * i + s * (i + 1) + i * i) % 256]

\* the values crypto.randomBytes(n) can return, numbered 1..count
RandomBytes(n, which) == [i \in 1..n |-> (which * 37 + i * 11) % 256]

RandomIVs == {RandomBytes(IV_BYTES, w) : w \in 1..NumIVs}
RandomSalts == {B64Encode(RandomBytes(SALT_BYTES, w)) : w \in 1..NumSalts}

\* buffer.slice(from, to), 0-based and clamped to the buffer
Slice(buf, from, to) ==
    LET hi == IF to < Len(buf) THEN to ELSE Len(buf)
    IN  IF from >= hi THEN <<>> ELSE SubSeq(buf, from + 1, hi)

KeyStream(key, iv, i) ==
    (key[((i - 1) % Len(key)) + 1] + iv[((i - 1) % Len(iv)) + 1] + i) % 256

RECURSIVE Weighted(_, _, _)
Weighted(ct, j, i) ==
    IF i > Len(ct) THEN 0 ELSE ct[i] * (i + j) + Weighted(ct, j, i + 1)

\* cipher.getAuthTag(): binds the key, the IV and the ciphertext
GcmTag(key, iv, ct) ==
    [j \in 1..TAG_BYTES |->
        (key[j] + 3 * key[j + TAG_BYTES] + 5 * iv[((j - 1) % Len(iv)) + 1]
         + Len(ct) + Weighted(ct, j, 1)) % 256]

\* PBKDF2 tabulated over the machine ids and salts that occur, so that each
\* key is derived once
PBKDF2Memo ==
    [p \in MachineIds, s \in RandomSalts |-> PBKDF2(p, s, KEY_BYTES)]

DerivedKeys == {PBKDF2Memo[x] : x \in DOMAIN PBKDF2Memo}

\* getDerivedKey(): [key, store]; newSalt is what randomBytes returns if asked
getDerivedKey(store, machine, newSalt) ==
    LET fresh == Falsy(store, SaltKey)
        store1 == IF fresh THEN Put(store, SaltKey, newSalt) ELSE store
        salt == store1[SaltKey]
    IN  [key |-> IF <<machine, salt>> \in DOMAIN PBKDF2Memo
                 THEN PBKDF2Memo[machine, salt]
                 ELSE PBKDF2(machine, salt, KEY_BYTES),
         store |-> store1]

\* what randomBytes(32) can return when getDerivedKey asks for a salt; when the
\* salt exists nothing is drawn
SaltDraws(store) == IF Falsy(store, SaltKey) THEN RandomSalts ELSE {<<>>}

\* encrypt(text) once the key is derived; iv is what randomBytes returns
encrypt(text, key, iv) ==
    LET plain == Utf8Encode(text)
        encrypted == [i \in 1..Len(plain) |-> (plain[i] + KeyStream(key, iv, i)) % 256]
        authTag == GcmTag(key, iv, encrypted)
        combined == iv \o authTag \o encrypted
    IN  B64Encode(combined)

\* setAuthTag accepts tags of these lengths for GCM
ValidTagLengths == {4, 8, 12, 13, 14, 15, 16}

\* a variant of decrypt that takes the ciphertext one byte too far into the blob
decryptShifted(encryptedData, key) ==
    LET combined == B64Decode(encryptedData)
        iv == Slice(combined, 0, IV_BYTES)
        authTag == Slice(combined, IV_BYTES, IV_BYTES + TAG_BYTES)
        encrypted == Slice(combined, IV_BYTES + TAG_BYTES + 1, Len(combined))
    IN  IF iv = <<>> \/ Len(authTag) \notin ValidTagLengths
        THEN [ok |-> FALSE, text |-> <<>>]
        ELSE IF authTag # SubSeq(GcmTag(key, iv, encrypted), 1, Len(authTag))
        THEN [ok |-> FALSE, text |-> <<>>]
        ELSE [ok |-> TRUE,
              text |-> Utf8Decode([i \in 1..Len(encrypted) |->
                          (encrypted[i] + 256 - KeyStream(key, iv, i)) % 256])]

\* a variant of decrypt that never verifies the tag
decryptUnverified(encryptedData, key) ==
    LET combined == B64Decode(encryptedData)
        iv == Slice(combined, 0, IV_BYTES)
        encrypted == Slice(combined, IV_BYTES + TAG_BYTES, Len(combined))
    IN  IF iv = <<>>
        THEN [ok |-> FALSE, text |-> <<>>]
        ELSE [ok |-> TRUE,
              text |-> Utf8Decode([i \in 1..Len(encrypted) |->
                          (encrypted[i] + 256 - KeyStream(key, iv, i)) % 256])]

\* decrypt(encryptedData) once the key is derived: [ok, text];
\* ok = FALSE when createDecipheriv, setAuthTag or final() throws
decrypt(encryptedData, key) ==
    LET combined == B64Decode(encryptedData)
        iv == Slice(combined, 0, IV_BYTES)
        authTag == Slice(combined, IV_BYTES, IV_BYTES + TAG_BYTES)
        encrypted == Slice(combined, IV_BYTES + TAG_BYTES, Len(combined))
    IN  IF iv = <<>> \/ Len(authTag) \notin ValidTagLengths
        THEN [ok |-> FALSE, text |-> <<>>]
        ELSE IF authTag # SubSeq(GcmTag(key, iv, encrypted), 1, Len(authTag))
        THEN [ok |-> FALSE, text |-> <<>>]
        ELSE [ok |-> TRUE,
              text |-> Utf8Decode([i \in 1..Len(encrypted) |->
                          (encrypted[i] + 256 - KeyStream(key, iv, i)) % 256])]

(***************************************************************************)
(* SecureKeyManager: the handlers as functions of the state they read,     *)
(* returning what they return or throw and the state they leave.           *)
(***************************************************************************)
InvalidFormat == "Invalid API key format"
NotFound(modelId) == "No API key found for model: " \o modelId
AuthFailed == "Unsupported state or unable to authenticate data"
NotAFunction == "date.getTime is not a function"

\* the class [a-zA-Z0-9_-]
IsKeyChar(c) ==
    \/ c \in 97..122
    \/ c \in 65..90
    \/ c \in 48..57
    \/ c \in {95, 45}

\* apiKey.length >= 20 && /^[a-zA-Z0-9_-]+$/.test(apiKey)
isValidApiKey(apiKey) ==
    /\ Len(apiKey) >= MIN_KEY_LENGTH
    /\ Len(apiKey) >= 1
    /\ \A i \in 1..Len(apiKey) : IsKeyChar(apiKey[i])

\* An envelope changed from outside: the byte at `offset` (0-based) of the
\* decoded blob has the bit `mask` flipped.
FlipBit(byte, mask) ==
    IF (byte \div mask) % 2 = 1 THEN byte - mask ELSE byte + mask

Tamper(envelope, offset, mask) ==
    LET combined == B64Decode(envelope)
    IN  B64Encode([i \in 1..Len(combined) |->
            IF i = offset + 1 THEN FlipBit(combined[i], mask) ELSE combined[i]])

\* the offsets tampered with: first and last tag byte, first and last
\* ciphertext byte of a blob of n bytes
TamperOffsets(n) ==
    {IV_BYTES, IV_BYTES + TAG_BYTES - 1, IV_BYTES + TAG_BYTES, n - 1}

TamperMasks == {1, 128}

\* encrypt and decrypt tabulated over the texts, keys, IVs and envelopes that
\* occur, so that each value is computed once
EncryptMemo ==
    [t \in {k \in Secrets : isValidApiKey(k)}, key \in DerivedKeys, iv \in RandomIVs |->
        encrypt(t, key, iv)]

Envelopes == {EncryptMemo[x] : x \in DOMAIN EncryptMemo}

TamperedEnvelopes ==
    UNION {{Tamper(e, o, m) : o \in TamperOffsets(Len(B64Decode(e))), m \in TamperMasks} :
           e \in Envelopes}

DecryptMemo ==
    [e \in Envelopes \cup TamperedEnvelopes, key \in DerivedKeys |-> decrypt(e, key)]

Encrypt(text, key, iv) ==
    IF <<text, key, iv>> \in DOMAIN EncryptMemo
    THEN EncryptMemo[text, key, iv] ELSE encrypt(text, key, iv)

Decrypt(encryptedData, key) ==
    IF <<encryptedData, key>> \in DOMAIN DecryptMemo
    THEN DecryptMemo[encryptedData, key] ELSE decrypt(encryptedData, key)

\* a variant of hashKeyId that gives every identifier the same digest
hashKeyIdShared(modelId) == <<"sha256", "">>

\* crypto.createHash('sha256').update(modelId).digest('hex')
hashKeyId(modelId) == <<"sha256", modelId>>

\* keyAudits.has / keyAudits.get of getAudit(modelId)
HasAudit(audits, modelId) == hashKeyId(modelId) \in DOMAIN audits
getAudit(audits, modelId) == audits[hashKeyId(modelId)]

\* a variant of updateAudit whose first entry starts at requestCount 0
updateAuditFromZero(audits, modelId, success, t) ==
    LET hashedId == hashKeyId(modelId)
    IN  IF hashedId \in DOMAIN audits
        THEN [audits EXCEPT ![hashedId] =
                [@ EXCEPT !.lastUsed = t,
                          !.requestCount = @ + 1,
                          !.failedAttempts = IF success THEN @ ELSE @ + 1]]
        ELSE Put(audits, hashedId,
                 [keyId |-> hashedId, lastUsed |-> t, requestCount |-> 0,
                  failedAttempts |-> IF success THEN 0 ELSE 1])

updateAudit(audits, modelId, success, t) ==
    LET hashedId == hashKeyId(modelId)
    IN  IF hashedId \in DOMAIN audits
        THEN [audits EXCEPT ![hashedId] =
                [@ EXCEPT !.lastUsed = t,
                          !.requestCount = @ + 1,
                          !.failedAttempts = IF success THEN @ ELSE @ + 1]]
        ELSE Put(audits, hashedId,
                 [keyId |-> hashedId, lastUsed |-> t, requestCount |-> 1,
                  failedAttempts |-> IF success THEN 0 ELSE 1])

\* new Date() at time t, and what JSON.stringify makes of a Date: a string
DateAt(t) == [type |-> "Date", time |-> t]
ToJSON(v) == IF v.type = "Date" THEN [type |-> "string", time |-> v.time] ELSE v

\* JSON.stringify(rotation) and JSON.parse(data): Dates come back as strings
JSONStringify(rotation) == [json |-> [rotation EXCEPT !.lastRotated = ToJSON(@)]]
JSONParse(data) == data.json

\* initializeRotation(modelId): the store it leaves
initializeRotation(store, modelId, t) ==
    LET rotation == [lastRotated |-> DateAt(t), rotationReminder |-> TRUE,
                     autoRotateAfterDays |-> DEFAULT_ROTATE_DAYS]
    IN  Put(store, RotationKey(modelId), JSONStringify(rotation))

\* a variant of getKey that returns an empty string for a missing key
getKeyEmptyOnMissing(store, audits, machine, modelId, t, newSalt) ==
    IF Falsy(store, EnvelopeKey(modelId))
    THEN [status |-> "ok", err |-> "", val |-> <<>>,
          store |-> store, audits |-> audits]
    ELSE LET dk == getDerivedKey(store, machine, newSalt)
             dec == Decrypt(store[EnvelopeKey(modelId)], dk.key)
         IN  IF ~dec.ok
             THEN [status |-> "threw", err |-> AuthFailed, val |-> <<>>,
                   store |-> dk.store, audits |-> audits]
             ELSE [status |-> "ok", err |-> "", val |-> dec.text,
                   store |-> dk.store,
                   audits |-> updateAudit(audits, modelId, TRUE, t)]

\* getKey(modelId): [status, err, val, store, audits]
getKey(store, audits, machine, modelId, t, newSalt) ==
    IF Falsy(store, EnvelopeKey(modelId))
    THEN [status |-> "threw", err |-> NotFound(modelId), val |-> <<>>,
          store |-> store, audits |-> audits]
    ELSE LET dk == getDerivedKey(store, machine, newSalt)
             dec == Decrypt(store[EnvelopeKey(modelId)], dk.key)
         IN  IF ~dec.ok
             THEN [status |-> "threw", err |-> AuthFailed, val |-> <<>>,
                   store |-> dk.store, audits |-> audits]
             ELSE [status |-> "ok", err |-> "", val |-> dec.text,
                   store |-> dk.store,
                   audits |-> updateAudit(audits, modelId, TRUE, t)]

\* a variant of storeKey that derives the key before it validates the secret
storeKeyDerivingFirst(store, machine, modelId, apiKey, t, iv, newSalt) ==
    LET dk == getDerivedKey(store, machine, newSalt)
    IN  IF ~isValidApiKey(apiKey)
        THEN [status |-> "threw", err |-> InvalidFormat, store |-> dk.store]
        ELSE LET encryptedData == Encrypt(apiKey, dk.key, iv)
                 store1 == Put(dk.store, EnvelopeKey(modelId), encryptedData)
             IN  [status |-> "ok", err |-> "",
                  store |-> initializeRotation(store1, modelId, t)]

\* storeKey(modelId, apiKey): [status, err, store]
storeKey(store, machine, modelId, apiKey, t, iv, newSalt) ==
    IF ~isValidApiKey(apiKey)
    THEN [status |-> "threw", err |-> InvalidFormat, store |-> store]
    ELSE LET dk == getDerivedKey(store, machine, newSalt)
             encryptedData == Encrypt(apiKey, dk.key, iv)
             store1 == Put(dk.store, EnvelopeKey(modelId), encryptedData)
         IN  [status |-> "ok", err |-> "",
              store |-> initializeRotation(store1, modelId, t)]

\* a variant of deleteKey that leaves the rotation record behind
deleteKeyKeepingRotation(store, audits, modelId) ==
    [status |-> "ok", err |-> "",
     store |-> Remove(store, EnvelopeKey(modelId)),
     audits |-> Remove(audits, hashKeyId(modelId))]

\* a variant of deleteKey that throws when there is no envelope to delete
deleteKeyStrict(store, audits, modelId) ==
    IF ~Has(store, EnvelopeKey(modelId))
    THEN [status |-> "threw", err |-> NotFound(modelId), store |-> store,
          audits |-> audits]
    ELSE [status |-> "ok", err |-> "",
          store |-> Remove(Remove(store, EnvelopeKey(modelId)), RotationKey(modelId)),
          audits |-> Remove(audits, hashKeyId(modelId))]

\* a variant of deleteKey that leaves the audit entry behind
deleteKeyKeepingAudit(store, audits, modelId) ==
    [status |-> "ok", err |-> "",
     store |-> Remove(Remove(store, EnvelopeKey(modelId)), RotationKey(modelId)),
     audits |-> audits]

\* deleteKey(modelId): [status, err, store, audits]
deleteKey(store, audits, modelId) ==
    [status |-> "ok", err |-> "",
     store |-> Remove(Remove(store, EnvelopeKey(modelId)), RotationKey(modelId)),
     audits |-> Remove(audits, hashKeyId(modelId))]

\* daysSince(date); date.getTime exists only on a Date
daysSince(date, t) == (t - date.time) \div (MS_PER_DAY \div MS_PER_TICK)

\* checkRotationNeeded(modelId): [status, err, needed]
checkRotationNeeded(store, modelId, t) ==
    IF ~Has(store, RotationKey(modelId))
    THEN [status |-> "ok", err |-> "", needed |-> FALSE]
    ELSE LET rotationData == JSONParse(store[RotationKey(modelId)])
         IN  IF rotationData.autoRotateAfterDays = 0
             THEN [status |-> "ok", err |-> "", needed |-> FALSE]
             ELSE IF rotationData.lastRotated.type # "Date"
             THEN [status |-> "threw", err |-> NotAFunction, needed |-> FALSE]
             ELSE [status |-> "ok", err |-> "",
                   needed |-> daysSince(rotationData.lastRotated, t)
                              >= rotationData.autoRotateAfterDays]

(***************************************************************************)
(* BYOKStorageService: identifiers and the legacy layout.                  *)
(***************************************************************************)
Providers == {"acme"}
\* "" stands for an omitted modelId (both are falsy)
ModelIds == {"", "gpt"}
AuthTypes == {"None", "GlobalApiKey", "PerModelDeployment"}

\* modelId ? `${providerName}-${modelId}` : providerName
KeyIdOf(providerName, modelId) ==
    IF modelId # "" THEN providerName \o "-" \o modelId ELSE providerName

\* (authType === PerModelDeployment && modelId) ? `${providerName}-${modelId}` : providerName
AuthKeyIdOf(providerName, authType, modelId) ==
    IF authType = "PerModelDeployment" /\ modelId # ""
    THEN providerName \o "-" \o modelId ELSE providerName

LegacyModelKey(providerName, modelId) ==
    "copilot-byok-" \o providerName \o "-" \o modelId \o "-api-key"
LegacyProviderKey(providerName) ==
    "copilot-byok-" \o providerName \o "-api-key"

KeyIds == {KeyIdOf(p, m) : p \in Providers, m \in ModelIds}

\* secrets an earlier version of the extension may have left in the legacy layout
LegacySecrets == {KeyA, TestKey}

(***************************************************************************)
(* Values a JavaScript program throws and returns.  An absent or undefined *)
(* string field is the empty string, an absent number is 0: the code reads *)
(* both through || or a truthiness test, which treat them alike.           *)
(***************************************************************************)
\* undefined
UndefinedValue == [kind |-> "undefined"]

(***************************************************************************)
(* The error taxonomy: BYOKError and its subclasses.                       *)
(***************************************************************************)
\* { ...details }: spreading undefined adds nothing
Spread(details) == IF details = UndefinedValue THEN <<>> ELSE details

\* new BYOKError(message, code, isRetryable, userAction, details), with
\* this.name = this.constructor.name
BYOKError(name, message, code, isRetryable, userAction, details) ==
    [kind |-> "BYOKError", name |-> name, message |-> message, code |-> code,
     isRetryable |-> isRetryable, userAction |-> userAction, details |-> details]

AuthenticationError(provider, details) ==
    BYOKError("AuthenticationError", "Authentication failed for " \o provider,
              "AUTH_FAILED", FALSE, "Please check your API key and try again",
              details)

\* a variant of RateLimitError that is not retryable
RateLimitErrorFinal(provider, retryAfter, details) ==
    BYOKError("RateLimitError", "Rate limit exceeded for " \o provider,
              "RATE_LIMIT", FALSE,
              IF retryAfter # 0
              THEN "Please wait " \o ToString(retryAfter) \o " seconds"
              ELSE "Please try again later",
              ("retryAfter" :> retryAfter) @@ Spread(details))

RateLimitError(provider, retryAfter, details) ==
    BYOKError("RateLimitError", "Rate limit exceeded for " \o provider,
              "RATE_LIMIT", TRUE,
              IF retryAfter # 0
              THEN "Please wait " \o ToString(retryAfter) \o " seconds"
              ELSE "Please try again later",
              ("retryAfter" :> retryAfter) @@ Spread(details))

\* originalError?.message
MessageOf(error) == IF error = UndefinedValue THEN "" ELSE error.message

NetworkError(provider, originalError) ==
    BYOKError("NetworkError", "Network error connecting to " \o provider,
              "NETWORK_ERROR", TRUE, "Please check your internet connection",
              [originalError |-> MessageOf(originalError)])

ModelNotFoundError(modelId, provider) ==
    BYOKError("ModelNotFoundError",
              "Model " \o modelId \o " not found for provider " \o provider,
              "MODEL_NOT_FOUND", FALSE,
              "Please check the model ID or select a different model",
              [modelId |-> modelId, provider |-> provider])

InvalidRequestError(message, provider, details) ==
    BYOKError("InvalidRequestError", message, "INVALID_REQUEST", FALSE,
              "Please check your request parameters",
              ("provider" :> provider) @@ Spread(details))

QuotaExceededError(provider, quotaType) ==
    BYOKError("QuotaExceededError", quotaType \o " quota exceeded for " \o provider,
              "QUOTA_EXCEEDED", FALSE,
              "Please upgrade your plan or wait for quota reset",
              [provider |-> provider, quotaType |-> quotaType])

(***************************************************************************)
(* ErrorMapper.  A raw error is a record of the fields the mappers read:   *)
(* status, responseStatus (error.response?.status), code, errorCode        *)
(* (error.error?.code), message, errorMessage (error.error?.message),      *)
(* reason (error.error?.error?.reason), model and retryAfter               *)
(* (error.response?.headers?.['retry-after']).  Reading a field of         *)
(* undefined throws a TypeError.                                           *)
(***************************************************************************)
RawError(status, responseStatus, code, errorCode, message, errorMessage, reason, model, retryAfter) ==
    [kind |-> "Error", status |-> status, responseStatus |-> responseStatus,
     code |-> code, errorCode |-> errorCode, message |-> message,
     errorMessage |-> errorMessage, reason |-> reason, model |-> model,
     retryAfter |-> retryAfter]

\* new Error(message) with a code set on it, as the Node network stack does
CodedError(code, message) == RawError(0, 0, code, "", message, "", "", "", 0)

\* TypeError: Cannot read properties of undefined
TypeErrorValue == [kind |-> "TypeError"]

Returned(v) == [status |-> "ok", val |-> v]
Threw(e) == [status |-> "threw", val |-> e]

\* a || b on numbers and on strings
OrNum(a, b) == IF a # 0 THEN a ELSE b
OrStr(a, b) == IF a # "" THEN a ELSE b

\* a variant of mapAnthropicError that reads only error.status and passes
\* no retry-after on
mapAnthropicErrorStatusOnly(error) ==
    IF error = UndefinedValue THEN Threw(TypeErrorValue)
    ELSE LET status == error.status
             message == OrStr(error.errorMessage, error.message)
         IN  Returned(
             CASE status = 401 -> AuthenticationError("Anthropic", [status |-> status])
               [] status = 429 -> RateLimitError("Anthropic", 0, UndefinedValue)
               [] status = 404 -> ModelNotFoundError(OrStr(error.model, "unknown"),
                                                     "Anthropic")
               [] status = 400 -> InvalidRequestError(message, "Anthropic",
                                                      [status |-> status])
               [] OTHER ->
                    IF error.code = "ENOTFOUND" \/ error.code = "ECONNREFUSED"
                    THEN NetworkError("Anthropic", error)
                    ELSE BYOKError("BYOKError", message, "UNKNOWN_ERROR", FALSE, "",
                                   [status |-> status]))

mapAnthropicError(error) ==
    IF error = UndefinedValue THEN Threw(TypeErrorValue)
    ELSE LET status == OrNum(error.status, error.responseStatus)
             message == OrStr(error.errorMessage, error.message)
         IN  Returned(
             CASE status = 401 -> AuthenticationError("Anthropic", [status |-> status])
               [] status = 429 -> RateLimitError("Anthropic", error.retryAfter,
                                                 UndefinedValue)
               [] status = 404 -> ModelNotFoundError(OrStr(error.model, "unknown"),
                                                     "Anthropic")
               [] status = 400 -> InvalidRequestError(message, "Anthropic",
                                                      [status |-> status])
               [] OTHER ->
                    IF error.code = "ENOTFOUND" \/ error.code = "ECONNREFUSED"
                    THEN NetworkError("Anthropic", error)
                    ELSE BYOKError("BYOKError", message, "UNKNOWN_ERROR", FALSE, "",
                                   [status |-> status]))

mapOpenAIError(error) ==
    IF error = UndefinedValue THEN Threw(TypeErrorValue)
    ELSE LET status == OrNum(error.status, error.responseStatus)
             code == OrStr(error.errorCode, error.code)
         IN  Returned(
             CASE code = "invalid_api_key" -> AuthenticationError("OpenAI",
                                                                  [code |-> code])
               [] code = "rate_limit_exceeded" -> RateLimitError("OpenAI", 0,
                                                                 UndefinedValue)
               [] code = "model_not_found" ->
                    ModelNotFoundError(OrStr(error.model, "unknown"), "OpenAI")
               [] code = "quota_exceeded" -> QuotaExceededError("OpenAI", "tokens")
               [] OTHER ->
                    IF status = 503
                    THEN BYOKError("BYOKError", "OpenAI service unavailable",
                                   "SERVICE_UNAVAILABLE", TRUE, "", UndefinedValue)
                    ELSE BYOKError("BYOKError", error.message, "UNKNOWN_ERROR", FALSE,
                                   "", [code |-> code, status |-> status]))

mapGeminiError(error) ==
    IF error = UndefinedValue THEN Threw(TypeErrorValue)
    ELSE LET status == OrNum(error.status, error.responseStatus)
             reason == error.reason
         IN  Returned(
             CASE reason = "API_KEY_INVALID" -> AuthenticationError("Gemini",
                                                                    UndefinedValue)
               [] reason = "RATE_LIMIT_EXCEEDED" -> RateLimitError("Gemini", 0,
                                                                   UndefinedValue)
               [] reason = "RESOURCE_EXHAUSTED" -> QuotaExceededError("Gemini",
                                                                      "requests")
               [] OTHER ->
                    IF status = 404
                    THEN ModelNotFoundError(OrStr(error.model, "unknown"), "Gemini")
                    ELSE BYOKError("BYOKError", error.message, "UNKNOWN_ERROR", FALSE,
                                   "", [reason |-> reason, status |-> status]))

\* the classified error constructed last: by which constructor or mapper,
\* from which input, and what the call returned or threw
Mapped(by, input, result) == [by |-> by, input |-> input, result |-> result]
NoneMapped == Mapped("none", UndefinedValue, Returned(UndefinedValue))

(***************************************************************************)
(* RetryStrategy.  shouldRetry is "default" for the predicate of           *)
(* DEFAULT_OPTIONS, "always" for () => true, "never" for () => false and   *)
(* "undefined" for an options object that sets the key to undefined.       *)
(* Delays are kept in units of 1 / DelayUnits of a millisecond, which      *)
(* makes the jitter a whole number.                                        *)
(***************************************************************************)
DEFAULT_OPTIONS ==
    [maxRetries |-> DEFAULT_MAX_RETRIES, initialDelayMs |-> DEFAULT_INITIAL_DELAY_MS,
     maxDelayMs |-> DEFAULT_MAX_DELAY_MS,
     backoffMultiplier |-> DEFAULT_BACKOFF_MULTIPLIER, shouldRetry |-> "default"]

\* { ...RetryStrategy.DEFAULT_OPTIONS, ...options }
MergeOptions(options) ==
    [k \in DOMAIN DEFAULT_OPTIONS |->
        IF k \in DOMAIN options THEN options[k] ELSE DEFAULT_OPTIONS[k]]

\* the codes the default predicate retries on an error that is not a BYOKError
RETRYABLE_CODES == {"ECONNRESET", "ETIMEDOUT", "ENOTFOUND"}

\* a variant of the default predicate that also retries ECONNREFUSED
DefaultShouldRetryRefused(error) ==
    IF error.kind = "BYOKError" THEN error.isRetryable
    ELSE error.code \in RETRYABLE_CODES \cup {"ECONNREFUSED"}

\* DEFAULT_OPTIONS.shouldRetry(error)
DefaultShouldRetry(error) ==
    IF error.kind = "BYOKError" THEN error.isRetryable
    ELSE error.code \in RETRYABLE_CODES

\* opts.shouldRetry ? opts.shouldRetry(error) : true
ShouldRetry(opts, error) ==
    CASE opts.shouldRetry = "undefined" -> TRUE
      [] opts.shouldRetry = "always" -> TRUE
      [] opts.shouldRetry = "never" -> FALSE
      [] OTHER -> DefaultShouldRetry(error)

RECURSIVE Pow(_, _)
\* Math.pow(base, exponent) for a natural exponent
Pow(base, exponent) == IF exponent = 0 THEN 1 ELSE base * Pow(base, exponent - 1)

Min(a, b) == IF a <= b THEN a ELSE b

\* the values of Math.random(), as numerators over JitterSteps
RandomDraws == 0 .. (JitterSteps - 1)
DelayUnits == JITTER_DIVISOR * JitterSteps

\* baseDelay, and Math.min(baseDelay + jitter, opts.maxDelayMs) with
\* jitter = (random / JitterSteps) * 0.1 * baseDelay, in delay units
BaseDelay(opts, attempt) == opts.initialDelayMs * Pow(opts.backoffMultiplier, attempt)
\* a variant of the delay that is not capped
BackoffDelayUncapped(opts, attempt, random) ==
    BaseDelay(opts, attempt) * DelayUnits + random * BaseDelay(opts, attempt)

BackoffDelay(opts, attempt, random) ==
    Min(BaseDelay(opts, attempt) * DelayUnits + random * BaseDelay(opts, attempt),
        opts.maxDelayMs * DelayUnits)

\* the options executeWithRetry is called with: those of the test suite for
\* every maxRetries, none, and some that override one default or another
OptionsInputs ==
    {[maxRetries |-> n, initialDelayMs |-> 10, shouldRetry |-> "always"] :
        n \in (-1) .. MaxRetriesInput}
    \cup {[onRetry |-> "undefined"],
          [shouldRetry |-> "undefined"],
          [maxRetries |-> 1, shouldRetry |-> "never"],
          [maxDelayMs |-> 1500],
          [maxRetries |-> 2, backoffMultiplier |-> 1, maxDelayMs |-> 1050]}

\* what the operation passed to executeWithRetry throws
FnErrors ==
    {AuthenticationError("Anthropic", UndefinedValue),
     RateLimitError("Anthropic", 0, UndefinedValue)}
    \cup {CodedError(c, "Temporary failure") :
            c \in RETRYABLE_CODES \cup {"ECONNREFUSED", ""}}

\* the error thrown by the invocation number n of the operation
ThrownAt(error, n) == [err |-> error, at |-> n]
NothingThrown == ThrownAt(UndefinedValue, 0)

\* no executeWithRetry call has been made
RetryIdle ==
    [stage |-> "idle", opts |-> DEFAULT_OPTIONS, attempt |-> 0, calls |-> 0,
     waits |-> 0, delay |-> 0, lastError |-> NothingThrown, thrown |-> NothingThrown,
     value |-> "", cancelled |-> FALSE, failures |-> 0, raised |-> NothingThrown]

\* executeWithRetry(fn, options) up to its first await: the options are
\* merged, and the operation is invoked when the loop is entered at all
executeWithRetry(options) ==
    LET opts == MergeOptions(options)
    IN  IF 0 <= opts.maxRetries
        THEN [RetryIdle EXCEPT !.stage = "calling", !.opts = opts, !.calls = 1]
        ELSE [RetryIdle EXCEPT !.stage = "threw", !.opts = opts]

\* a variant of the catch block that gives up one attempt early
catchErrorEarly(r, error, random) ==
    LET shouldRetry == ShouldRetry(r.opts, error.err)
    IN  IF r.attempt + 1 >= r.opts.maxRetries \/ ~shouldRetry
        THEN [r EXCEPT !.stage = "threw", !.lastError = error, !.thrown = error]
        ELSE [r EXCEPT !.stage = "waiting", !.lastError = error,
                       !.delay = BackoffDelay(r.opts, r.attempt, random),
                       !.waits = @ + 1]

\* a variant of the catch block that leaves the attempt count to the loop
catchErrorUncounted(r, error, random) ==
    LET shouldRetry == ShouldRetry(r.opts, error.err)
    IN  IF ~shouldRetry
        THEN [r EXCEPT !.stage = "threw", !.lastError = error, !.thrown = error]
        ELSE [r EXCEPT !.stage = "waiting", !.lastError = error,
                       !.delay = BackoffDelay(r.opts, r.attempt, random),
                       !.waits = @ + 1]

\* a variant of the catch block that raises the first error it saw
catchErrorFirst(r, error, random) ==
    LET shouldRetry == ShouldRetry(r.opts, error.err)
        first == IF r.lastError = NothingThrown THEN error ELSE r.lastError
    IN  IF r.attempt = r.opts.maxRetries \/ ~shouldRetry
        THEN [r EXCEPT !.stage = "threw", !.lastError = first, !.thrown = first]
        ELSE [r EXCEPT !.stage = "waiting", !.lastError = first,
                       !.delay = BackoffDelay(r.opts, r.attempt, random),
                       !.waits = @ + 1]

\* the catch block of executeWithRetry, up to await this.delay(delay)
catchError(r, error, random) ==
    LET shouldRetry == ShouldRetry(r.opts, error.err)
    IN  IF r.attempt = r.opts.maxRetries \/ ~shouldRetry
        THEN [r EXCEPT !.stage = "threw", !.lastError = error, !.thrown = error]
        ELSE [r EXCEPT !.stage = "waiting", !.lastError = error,
                       !.delay = BackoffDelay(r.opts, r.attempt, random),
                       !.waits = @ + 1]

\* the delay has elapsed: attempt++, the loop condition, and the next
\* invocation of the operation or throw lastError
nextAttempt(r) ==
    IF r.attempt + 1 <= r.opts.maxRetries
    THEN [r EXCEPT !.stage = "calling", !.attempt = @ + 1, !.calls = @ + 1]
    ELSE [r EXCEPT !.stage = "threw", !.attempt = @ + 1, !.thrown = r.lastError]

\* steps of the clock: 44.5 days and 45 days, so that 89, 89.5 and 90 days
\* after a store are all reached
TicksPerDay == MS_PER_DAY \div MS_PER_TICK
ClockSteps == {(89 * TicksPerDay) \div 2, 45 * TicksPerDay}

(***************************************************************************)
(* Calls on the SecureKeyManager that overlap.  An async method runs up to *)
(* its next await in one step; the storage operation it awaits takes       *)
(* effect when it is issued, and the method resumes in a later step, so    *)
(* the steps of two callers interleave at the awaits.                      *)
(***************************************************************************)
\* the callers; each works on an identifier of its own
Procs == {1, 2}
ProcId(p) == IF p = 1 THEN "acme" ELSE "acme-gpt"

\* what randomBytes(32) can return to callers that each ask for a salt: one
\* value more than RandomSalts, so that two draws can differ
RaceSalts == {B64Encode(RandomBytes(SALT_BYTES, w)) : w \in 1..(NumSalts + 1)}

\* a caller between calls; stage: the await the call stands at; apiKey: the
\* argument of storeKey; env, salt: what storage.get returned to the call;
\* status, err, val: how the caller's last call ended
ProcIdle == [stage |-> "idle", op |-> "none", apiKey |-> <<>>, env |-> <<>>, salt |-> <<>>, calls |-> 0, status |-> "ok", err |-> "", val |-> <<>>]

\* what storage.get(k) resolves to (<<>>: undefined)
Get(store, k) == IF Has(store, k) THEN store[k] ELSE <<>>

\* crypto.pbkdf2Sync(machineId, salt, 100000, 32, 'sha256')
deriveKey(machine, salt) ==
    IF <<machine, salt>> \in DOMAIN PBKDF2Memo
    THEN PBKDF2Memo[machine, salt] ELSE PBKDF2(machine, salt, KEY_BYTES)

\* the call of a caller has ended
Ended(c, status, err, val) ==
    [c EXCEPT !.stage = "idle", !.status = status, !.err = err, !.val = val]

(***************************************************************************)
(* Model configurations of the BYOKStorageService, kept in globalState     *)
(* under `copilot-byok-${providerName}-models-config`.                     *)
(***************************************************************************)
\* the models configured: "gpt" may have a deployment and a key of its own,
\* "llama" uses the key of its provider
ConfigModelIds == {"gpt", "llama"}
ConfigAuthTypes(modelId) == IF modelId = "gpt" THEN AuthTypes ELSE AuthTypes \ {"PerModelDeployment"}

\* the config argument of saveModelConfig; deploymentUrl and modelCapabilities
\* are left out by the caller (undefined)
ConfigInputs == [apiKey : {KeyA, ShortKey}, isCustomModel : BOOLEAN, deploymentUrl : {""}, modelCapabilities : {"undefined"}]

\* getStoredModelConfigs(providerName)
getStoredModelConfigs(configs, providerName) == configs[providerName]

\* configToSave of saveModelConfig
configToSave(config) ==
    [isCustomModel |-> config.isCustomModel, deploymentUrl |-> config.deploymentUrl,
     isRegistered |-> TRUE, modelCapabilities |-> config.modelCapabilities]

\* a variant of removeModelConfig that deletes the configuration whatever the
\* model is
removeModelConfigAlways(configs, store, modelId, providerName, isDeletingCustomModel) ==
    LET existingConfigs == getStoredModelConfigs(configs, providerName)
        exists == Has(existingConfigs, modelId)
    IN  IF exists
        THEN [status |-> "ok", err |-> "",
              configs |-> [configs EXCEPT ![providerName] = Remove(existingConfigs, modelId)],
              store |-> Remove(store, LegacyModelKey(providerName, modelId))]
        ELSE [status |-> "threw", err |-> "Cannot set properties of undefined",
              configs |-> configs, store |-> store]

\* removeModelConfig(modelId, providerName, isDeletingCustomModel):
\* [status, err, configs, store]
removeModelConfig(configs, store, modelId, providerName, isDeletingCustomModel) ==
    LET existingConfigs == getStoredModelConfigs(configs, providerName)
        exists == Has(existingConfigs, modelId)
        isCustomModel == exists /\ existingConfigs[modelId].isCustomModel
    IN  IF exists /\ (isDeletingCustomModel \/ ~isCustomModel)
        THEN [status |-> "ok", err |-> "",
              configs |-> [configs EXCEPT ![providerName] = Remove(existingConfigs, modelId)],
              store |-> Remove(store, LegacyModelKey(providerName, modelId))]
        ELSE IF ~exists
        THEN [status |-> "threw", err |-> "Cannot set properties of undefined",
              configs |-> configs, store |-> store]
        ELSE [status |-> "ok", err |-> "",
              configs |-> [configs EXCEPT ![providerName] =
                              Put(existingConfigs, modelId,
                                  [existingConfigs[modelId] EXCEPT !.isRegistered = FALSE])],
              store |-> store]

(***************************************************************************)
(* State.                                                                  *)
(***************************************************************************)
VARIABLES
    secretStore,  \* the SecretStorage shared by the manager and the service
    keyAudits,    \* SecureKeyManager.keyAudits
    machineId,    \* vscode.env.machineId
    now,          \* the clock, in ticks of MS_PER_TICK milliseconds
    pc,           \* where a getAPIKey call that found a legacy entry stands
    last,         \* the call made last and what it returned or threw
    stored,       \* per identifier: the secret of the last successful storeKey
                  \* since the last deleteKey (<<>>: none)
    successes,    \* per identifier: successful getKey calls since the last
                  \* deleteKey
    retry,        \* the executeWithRetry call under way or finished last
    mapped,       \* the classified error constructed last, and from what
    procs,        \* concurrent callers of the manager: where each call stands
    modelConfigs  \* globalState: per provider, the stored model configurations

vars == <<secretStore, keyAudits, machineId, now, pc, last, stored, successes,
          retry, mapped, procs, modelConfigs>>

\* op: the call; id: its key identifier; arg: the secret it was given (storeKey),
\* found in the legacy layout (getAPIKey) or held before (deleteKey);
\* status: "ok", "threw" or "pending"; err: the message thrown; val: the string
\* returned; out: the kind of value returned; via: the path getAPIKey took,
\* the modelId argument of storeAPIKey and deleteAPIKey
Outcome(op, id, arg, status, err, val, out, via) ==
    [op |-> op, id |-> id, arg |-> arg, status |-> status, err |-> err,
     val |-> val, out |-> out, via |-> via]

Idle == [stage |-> "idle", id |-> "", keyId |-> "", legacyKey |-> "",
         value |-> <<>>, via |-> ""]

Init ==
    /\ secretStore = EmptyMap
    /\ keyAudits = EmptyMap
    /\ machineId = Machine1
    /\ now = 0
    /\ pc = Idle
    /\ last = Outcome("none", "", <<>>, "ok", "", <<>>, "void", "")
    /\ stored = [id \in KeyIds |-> <<>>]
    /\ successes = [id \in KeyIds |-> 0]
    /\ retry = RetryIdle
    /\ mapped = NoneMapped
    /\ procs = [p \in Procs |-> ProcIdle]
    /\ modelConfigs = [p \in Providers |-> EmptyMap]

(***************************************************************************)
(* Calls on the SecureKeyManager, one at a time.                           *)
(***************************************************************************)
\* a variant of StoreKey that records the store as an access in the ledger
StoreKeyAudited(modelId, apiKey) ==
    \E iv \in RandomIVs, newSalt \in SaltDraws(secretStore) :
        LET r == storeKey(secretStore, machineId, modelId, apiKey, now, iv, newSalt)
        IN  /\ secretStore' = r.store
            /\ last' = Outcome("storeKey", modelId, apiKey, r.status, r.err, <<>>,
                               "void", "")
            /\ stored' = IF r.status = "ok"
                         THEN [stored EXCEPT ![modelId] = apiKey] ELSE stored
            /\ keyAudits' = IF r.status = "ok" /\ HasAudit(keyAudits, modelId)
                            THEN updateAudit(keyAudits, modelId, TRUE, now)
                            ELSE keyAudits
            /\ UNCHANGED <<machineId, now, pc, successes, retry, mapped, procs,
                           modelConfigs>>

StoreKey(modelId, apiKey) ==
    \E iv \in RandomIVs, newSalt \in SaltDraws(secretStore) :
        LET r == storeKey(secretStore, machineId, modelId, apiKey, now, iv, newSalt)
        IN  /\ secretStore' = r.store
            /\ last' = Outcome("storeKey", modelId, apiKey, r.status, r.err, <<>>,
                               "void", "")
            /\ stored' = IF r.status = "ok"
                         THEN [stored EXCEPT ![modelId] = apiKey] ELSE stored
            /\ UNCHANGED <<keyAudits, machineId, now, pc, successes, retry, mapped, procs,
                   modelConfigs>>

GetKey(modelId) ==
    /\ successes[modelId] < MaxRequests
    /\ \E newSalt \in SaltDraws(secretStore) :
        LET r == getKey(secretStore, keyAudits, machineId, modelId, now, newSalt)
        IN  /\ secretStore' = r.store
            /\ keyAudits' = r.audits
            /\ last' = Outcome("getKey", modelId, <<>>, r.status, r.err, r.val,
                               IF r.status = "ok" THEN "value" ELSE "void", "")
            /\ successes' = IF r.status = "ok"
                            THEN [successes EXCEPT ![modelId] = @ + 1]
                            ELSE successes
            /\ UNCHANGED <<machineId, now, pc, stored, retry, mapped, procs,
                   modelConfigs>>

DeleteKey(modelId) ==
    LET r == deleteKey(secretStore, keyAudits, modelId)
    IN  /\ secretStore' = r.store
        /\ keyAudits' = r.audits
        /\ last' = Outcome("deleteKey", modelId, stored[modelId], r.status, r.err,
                           <<>>, "void", "")
        /\ stored' = IF r.status = "ok" THEN [stored EXCEPT ![modelId] = <<>>]
                     ELSE stored
        /\ successes' = IF r.status = "ok" THEN [successes EXCEPT ![modelId] = 0]
                        ELSE successes
        /\ UNCHANGED <<machineId, now, pc, retry, mapped, procs,
                   modelConfigs>>

CheckRotationNeeded(modelId) ==
    LET r == checkRotationNeeded(secretStore, modelId, now)
    IN  /\ last' = Outcome("checkRotationNeeded", modelId, <<>>, r.status, r.err, <<>>,
                           IF r.status # "ok" THEN "void"
                           ELSE IF r.needed THEN "true" ELSE "false", "")
        /\ UNCHANGED <<secretStore, keyAudits, machineId, now, pc, stored, successes, retry, mapped, procs,
                   modelConfigs>>

(***************************************************************************)
(* The environment: the secret store is written from outside, the          *)
(* extension runs on another machine.                                      *)
(***************************************************************************)
\* the envelope of modelId as the current key sealed it, not yet changed
Authentic(store, machine, modelId) ==
    /\ Has(store, EnvelopeKey(modelId))
    /\ Has(store, SaltKey)
    /\ \E x \in DOMAIN EncryptMemo :
        /\ x[2] = getDerivedKey(store, machine, <<>>).key
        /\ store[EnvelopeKey(modelId)] = EncryptMemo[x]

TamperEnvelope(modelId) ==
    /\ Authentic(secretStore, machineId, modelId)
    /\ \E o \in TamperOffsets(Len(B64Decode(secretStore[EnvelopeKey(modelId)]))),
          m \in TamperMasks :
        secretStore' = Put(secretStore, EnvelopeKey(modelId),
                           Tamper(secretStore[EnvelopeKey(modelId)], o, m))
    /\ last' = Outcome("tamper", modelId, <<>>, "ok", "", <<>>, "void", "")
    /\ UNCHANGED <<keyAudits, machineId, now, pc, stored, successes, retry, mapped, procs,
                   modelConfigs>>

ChangeMachine(machine) ==
    /\ machine # machineId
    /\ machineId' = machine
    /\ last' = Outcome("changeMachine", "", <<>>, "ok", "", <<>>, "void", "")
    /\ UNCHANGED <<secretStore, keyAudits, now, pc, stored, successes, retry, mapped, procs,
                   modelConfigs>>

\* an earlier version of the extension stored the key in the legacy layout
LegacyStore(providerName, modelId, apiKey) ==
    /\ pc.stage = "idle"
    /\ secretStore' = Put(secretStore,
                          IF modelId # "" THEN LegacyModelKey(providerName, modelId)
                          ELSE LegacyProviderKey(providerName),
                          apiKey)
    /\ last' = Outcome("legacyStore", KeyIdOf(providerName, modelId), apiKey, "ok", "",
                       <<>>, "void", "")
    /\ UNCHANGED <<keyAudits, machineId, now, pc, stored, successes, retry, mapped, procs,
                   modelConfigs>>

(***************************************************************************)
(* Calls on the BYOKStorageService, one at a time.  getAPIKey is split at  *)
(* the awaits of its migration: the re-store and the legacy delete.        *)
(***************************************************************************)
\* getAPIKey up to the legacy reads: the try block, and in the catch block
\* which legacy entry, if any, is migrated
GetAPIKey(providerName, modelId) ==
    /\ pc.stage = "idle"
    /\ successes[KeyIdOf(providerName, modelId)] < MaxRequests
    /\ \E newSalt \in SaltDraws(secretStore) :
        LET keyId == KeyIdOf(providerName, modelId)
            r == getKey(secretStore, keyAudits, machineId, keyId, now, newSalt)
            modelKey == LegacyModelKey(providerName, modelId)
            providerKey == LegacyProviderKey(providerName)
        IN  /\ secretStore' = r.store
            /\ keyAudits' = r.audits
            /\ successes' = IF r.status = "ok"
                            THEN [successes EXCEPT ![keyId] = @ + 1] ELSE successes
            /\ IF r.status = "ok"
               THEN /\ pc' = pc
                    /\ last' = Outcome("getAPIKey", keyId, <<>>, "ok", "", r.val,
                                       "value", "envelope")
               ELSE IF modelId # "" /\ ~Falsy(r.store, modelKey)
               THEN /\ pc' = [stage |-> "store", id |-> keyId,
                              keyId |-> providerName \o "-" \o modelId,
                              legacyKey |-> modelKey, value |-> r.store[modelKey],
                              via |-> "legacy"]
                    /\ last' = Outcome("getAPIKey", keyId, r.store[modelKey], "pending",
                                       "", <<>>, "void", "legacy")
               ELSE IF ~Falsy(r.store, providerKey)
               THEN /\ pc' = [stage |-> "store", id |-> keyId, keyId |-> providerName,
                              legacyKey |-> providerKey, value |-> r.store[providerKey],
                              via |-> IF modelId # "" THEN "legacyProvider" ELSE "legacy"]
                    /\ last' = Outcome("getAPIKey", keyId, r.store[providerKey],
                                       "pending", "", <<>>, "void",
                                       IF modelId # "" THEN "legacyProvider" ELSE "legacy")
               ELSE /\ pc' = pc
                    /\ last' = Outcome("getAPIKey", keyId, <<>>, "ok", "", <<>>,
                                       "undefined", "none")
            /\ UNCHANGED <<machineId, now, stored, retry, mapped, procs,
                   modelConfigs>>

\* a variant of MigrateStore that deletes the legacy entry before re-storing
MigrateStoreAfterDelete ==
    /\ pc.stage = "store"
    /\ \E iv \in RandomIVs, newSalt \in SaltDraws(secretStore) :
        LET r == storeKey(Remove(secretStore, pc.legacyKey), machineId, pc.keyId,
                          pc.value, now, iv, newSalt)
        IN  /\ secretStore' = r.store
            /\ IF r.status = "ok"
               THEN /\ pc' = [pc EXCEPT !.stage = "delete"]
                    /\ stored' = [stored EXCEPT ![pc.keyId] = pc.value]
                    /\ last' = [last EXCEPT !.status = "pending"]
               ELSE /\ pc' = Idle
                    /\ stored' = stored
                    /\ last' = Outcome("getAPIKey", pc.id, pc.value, "threw", r.err,
                                       <<>>, "void", pc.via)
    /\ UNCHANGED <<keyAudits, machineId, now, successes, retry, mapped, procs,
                   modelConfigs>>

\* await this._secureKeyManager.storeKey(..., legacy value): a throw leaves
\* the catch block and rejects getAPIKey
MigrateStore ==
    /\ pc.stage = "store"
    /\ \E iv \in RandomIVs, newSalt \in SaltDraws(secretStore) :
        LET r == storeKey(secretStore, machineId, pc.keyId, pc.value, now, iv, newSalt)
        IN  /\ secretStore' = r.store
            /\ IF r.status = "ok"
               THEN /\ pc' = [pc EXCEPT !.stage = "delete"]
                    /\ stored' = [stored EXCEPT ![pc.keyId] = pc.value]
                    /\ last' = [last EXCEPT !.status = "pending"]
               ELSE /\ pc' = Idle
                    /\ stored' = stored
                    /\ last' = Outcome("getAPIKey", pc.id, pc.value, "threw", r.err,
                                       <<>>, "void", pc.via)
    /\ UNCHANGED <<keyAudits, machineId, now, successes, retry, mapped, procs,
                   modelConfigs>>

\* await this._extensionContext.secrets.delete(legacy key); return the value
MigrateDelete ==
    /\ pc.stage = "delete"
    /\ secretStore' = Remove(secretStore, pc.legacyKey)
    /\ pc' = Idle
    /\ last' = Outcome("getAPIKey", pc.id, pc.value, "ok", "", pc.value, "value", pc.via)
    /\ UNCHANGED <<keyAudits, machineId, now, stored, successes, retry, mapped, procs,
                   modelConfigs>>

StoreAPIKey(providerName, apiKey, authType, modelId) ==
    /\ pc.stage = "idle"
    /\ IF authType = "None"
       THEN /\ last' = Outcome("storeAPIKey", "", apiKey, "ok", "", <<>>, "void", modelId)
            /\ UNCHANGED <<secretStore, stored>>
       ELSE \E iv \in RandomIVs, newSalt \in SaltDraws(secretStore) :
            LET keyId == AuthKeyIdOf(providerName, authType, modelId)
                r == storeKey(secretStore, machineId, keyId, apiKey, now, iv, newSalt)
            IN  /\ secretStore' = r.store
                /\ last' = Outcome("storeAPIKey", keyId, apiKey, r.status, r.err, <<>>,
                                   "void", modelId)
                /\ stored' = IF r.status = "ok"
                             THEN [stored EXCEPT ![keyId] = apiKey] ELSE stored
    /\ UNCHANGED <<keyAudits, machineId, now, pc, successes, retry, mapped, procs,
                   modelConfigs>>

DeleteAPIKey(providerName, authType, modelId) ==
    /\ pc.stage = "idle"
    /\ IF authType = "None"
       THEN /\ last' = Outcome("deleteAPIKey", "", <<>>, "ok", "", <<>>, "void", modelId)
            /\ UNCHANGED <<secretStore, keyAudits, stored, successes>>
       ELSE LET keyId == AuthKeyIdOf(providerName, authType, modelId)
                r == deleteKey(secretStore, keyAudits, keyId)
            IN  /\ secretStore' = r.store
                /\ keyAudits' = r.audits
                /\ last' = Outcome("deleteAPIKey", keyId, stored[keyId], r.status,
                                   r.err, <<>>, "void", modelId)
                /\ stored' = [stored EXCEPT ![keyId] = <<>>]
                /\ successes' = [successes EXCEPT ![keyId] = 0]
    /\ UNCHANGED <<machineId, now, pc, retry, mapped, procs,
                   modelConfigs>>

(***************************************************************************)
(* The clock.                                                              *)
(***************************************************************************)
AdvanceClock(ticks) ==
    /\ now + ticks <= MaxDays * TicksPerDay
    /\ now' = now + ticks
    /\ last' = Outcome("advanceClock", "", <<>>, "ok", "", <<>>, "void", "")
    /\ UNCHANGED <<secretStore, keyAudits, machineId, pc, stored, successes, retry,
                   mapped, procs,
                   modelConfigs>>

(***************************************************************************)
(* A call of RetryStrategy.executeWithRetry, split at its awaits: the      *)
(* operation settles, the delay elapses.  The caller's cancellation token  *)
(* (ProgressNotification.withProgress) is never handed to the loop.        *)
(***************************************************************************)
ExecuteWithRetry(options) ==
    /\ retry.stage \in {"idle", "returned", "threw"}
    /\ retry' = executeWithRetry(options)
    /\ UNCHANGED <<secretStore, keyAudits, machineId, now, pc, last, stored,
                   successes, mapped, procs,
                   modelConfigs>>

\* return await fn()
FnReturns ==
    /\ retry.stage = "calling"
    /\ retry' = [retry EXCEPT !.stage = "returned", !.value = "success"]
    /\ UNCHANGED <<secretStore, keyAudits, machineId, now, pc, last, stored,
                   successes, mapped, procs,
                   modelConfigs>>

\* fn() rejects with error; Math.random() returns random / JitterSteps
FnThrows(error, random) ==
    /\ retry.stage = "calling"
    /\ retry' = [catchError(retry, ThrownAt(error, retry.calls), random)
                    EXCEPT !.failures = retry.failures + 1,
                           !.raised = ThrownAt(error, retry.calls)]
    /\ UNCHANGED <<secretStore, keyAudits, machineId, now, pc, last, stored,
                   successes, mapped, procs,
                   modelConfigs>>

\* the timer of this.delay(delay) fires
DelayElapses ==
    /\ retry.stage = "waiting"
    /\ retry' = nextAttempt(retry)
    /\ UNCHANGED <<secretStore, keyAudits, machineId, now, pc, last, stored,
                   successes, mapped, procs,
                   modelConfigs>>

\* the user cancels the progress notification the call runs under
Cancel ==
    /\ retry.stage \in {"calling", "waiting"}
    /\ ~retry.cancelled
    /\ retry' = [retry EXCEPT !.cancelled = TRUE]
    /\ UNCHANGED <<secretStore, keyAudits, machineId, now, pc, last, stored,
                   successes, mapped, procs,
                   modelConfigs>>

(***************************************************************************)
(* Classified errors are constructed: by the constructors of the           *)
(* subclasses, as the test suite does, and by the provider mappers.        *)
(***************************************************************************)
\* the arguments the constructors are called with
ProviderNames == {"TestProvider"}
DetailsInputs == {UndefinedValue, [requestId |-> "req-1"]}
RetryAfterInputs == {0, 60}
QuotaTypes == {"tokens", "requests", "cost"}

\* the raw errors handed to the mappers
RawErrors ==
    {RawError(status, responseStatus, code, errorCode, "request failed",
              errorMessage, reason, model, retryAfter) :
        status \in {0, 400, 401, 404, 429, 500, 503},
        responseStatus \in {0, 429},
        code \in RETRYABLE_CODES \cup {"", "ECONNREFUSED", "invalid_api_key",
                                       "rate_limit_exceeded", "model_not_found",
                                       "quota_exceeded"},
        errorCode \in {"", "invalid_api_key"},
        errorMessage \in {"", "inner message"},
        reason \in {"", "API_KEY_INVALID", "RATE_LIMIT_EXCEEDED",
                    "RESOURCE_EXHAUSTED"},
        model \in {"", "test-model"},
        retryAfter \in RetryAfterInputs}

\* a provider call fails with a raw error, which a mapper then classifies
ProviderFails ==
    /\ mapped.by = "none"
    /\ \E error \in RawErrors \cup {UndefinedValue} :
            mapped' = Mapped("raised", error, Returned(UndefinedValue))
    /\ UNCHANGED <<secretStore, keyAudits, machineId, now, pc, last, stored,
                   successes, retry, procs,
                   modelConfigs>>

\* the caller is done with the classified error
ErrorHandled ==
    /\ mapped.by \notin {"none", "raised"}
    /\ mapped' = NoneMapped
    /\ UNCHANGED <<secretStore, keyAudits, machineId, now, pc, last, stored,
                   successes, retry, procs,
                   modelConfigs>>

Construct(by, input, error) ==
    /\ mapped.by = "none"
    /\ mapped' = Mapped(by, input, Returned(error))
    /\ UNCHANGED <<secretStore, keyAudits, machineId, now, pc, last, stored,
                   successes, retry, procs,
                   modelConfigs>>

NewAuthenticationError(provider, details) ==
    Construct("AuthenticationError", [provider |-> provider, details |-> details],
              AuthenticationError(provider, details))

NewRateLimitError(provider, retryAfter, details) ==
    Construct("RateLimitError",
              [provider |-> provider, retryAfter |-> retryAfter, details |-> details],
              RateLimitError(provider, retryAfter, details))

NewNetworkError(provider, originalError) ==
    Construct("NetworkError",
              [provider |-> provider, originalError |-> originalError],
              NetworkError(provider, originalError))

NewModelNotFoundError(modelId, provider) ==
    Construct("ModelNotFoundError", [modelId |-> modelId, provider |-> provider],
              ModelNotFoundError(modelId, provider))

NewInvalidRequestError(message, provider, details) ==
    Construct("InvalidRequestError",
              [message |-> message, provider |-> provider, details |-> details],
              InvalidRequestError(message, provider, details))

NewQuotaExceededError(provider, quotaType) ==
    Construct("QuotaExceededError", [provider |-> provider, quotaType |-> quotaType],
              QuotaExceededError(provider, quotaType))

MapAnthropicError ==
    /\ mapped.by = "raised"
    /\ mapped' = Mapped("mapAnthropicError", mapped.input, mapAnthropicError(mapped.input))
    /\ UNCHANGED <<secretStore, keyAudits, machineId, now, pc, last, stored,
                   successes, retry, procs,
                   modelConfigs>>

MapOpenAIError ==
    /\ mapped.by = "raised"
    /\ mapped' = Mapped("mapOpenAIError", mapped.input, mapOpenAIError(mapped.input))
    /\ UNCHANGED <<secretStore, keyAudits, machineId, now, pc, last, stored,
                   successes, retry, procs,
                   modelConfigs>>

MapGeminiError ==
    /\ mapped.by = "raised"
    /\ mapped' = Mapped("mapGeminiError", mapped.input, mapGeminiError(mapped.input))
    /\ UNCHANGED <<secretStore, keyAudits, machineId, now, pc, last, stored,
                   successes, retry, procs,
                   modelConfigs>>

(***************************************************************************)
(* Overlapping calls on the SecureKeyManager, split at their awaits.       *)
(***************************************************************************)
\* storeKey(id, apiKey) up to `await this.secretStorage.get(salt)` in
\* getDerivedKey, or to the throw of an invalid key
CallStoreKey(p, apiKey) ==
    /\ procs[p].stage = "idle"
    /\ procs[p].calls < MaxCalls
    /\ procs' = [procs EXCEPT ![p] =
            IF ~isValidApiKey(apiKey)
            THEN [Ended(@, "threw", InvalidFormat, <<>>) EXCEPT
                      !.op = "storeKey", !.apiKey = apiKey, !.calls = @ + 1]
            ELSE [@ EXCEPT !.stage = "salt", !.op = "storeKey", !.apiKey = apiKey,
                           !.salt = Get(secretStore, SaltKey), !.calls = @ + 1,
                           !.status = "pending", !.err = "", !.val = <<>>]]
    /\ UNCHANGED <<secretStore, keyAudits, machineId, now, pc, last, stored,
                   successes, retry, mapped, modelConfigs>>

\* getKey(id) up to `await this.secretStorage.get(envelope)`
CallGetKey(p) ==
    /\ procs[p].stage = "idle"
    /\ procs[p].calls < MaxCalls
    /\ procs' = [procs EXCEPT ![p] =
            [@ EXCEPT !.stage = "envelope", !.op = "getKey", !.apiKey = <<>>,
                      !.env = Get(secretStore, EnvelopeKey(ProcId(p))),
                      !.calls = @ + 1, !.status = "pending", !.err = "",
                      !.val = <<>>]]
    /\ UNCHANGED <<secretStore, keyAudits, machineId, now, pc, last, stored,
                   successes, retry, mapped, modelConfigs>>

\* getKey after the envelope was read: throws when there is none, else goes
\* on into decrypt up to `await this.secretStorage.get(salt)`
EnvelopeRead(p) ==
    /\ procs[p].op = "getKey"
    /\ procs[p].stage = "envelope"
    /\ procs' = [procs EXCEPT ![p] =
            IF procs[p].env = <<>>
            THEN Ended(@, "threw", NotFound(ProcId(p)), <<>>)
            ELSE [@ EXCEPT !.stage = "salt", !.salt = Get(secretStore, SaltKey)]]
    /\ UNCHANGED <<secretStore, keyAudits, machineId, now, pc, last, stored,
                   successes, retry, mapped, modelConfigs>>

\* getDerivedKey from pbkdf2Sync on, and what follows without an await:
\* encrypt draws an IV, seals, and storeKey issues the write of the envelope;
\* decrypt opens the envelope getKey read, and getKey records the access and
\* returns, or the failure is thrown
KeyDerived(p, salt) ==
    LET key == deriveKey(machineId, salt)
        id == ProcId(p)
    IN  IF procs[p].op = "storeKey"
        THEN \E iv \in RandomIVs :
                /\ secretStore' = Put(secretStore, EnvelopeKey(id), Encrypt(procs[p].apiKey, key, iv))
                /\ procs' = [procs EXCEPT ![p].stage = "envelope"]
                /\ UNCHANGED keyAudits
        ELSE LET dec == Decrypt(procs[p].env, key)
             IN  /\ procs' = [procs EXCEPT ![p] =
                        IF dec.ok THEN Ended(@, "ok", "", dec.text)
                        ELSE Ended(@, "threw", AuthFailed, <<>>)]
                 /\ keyAudits' = IF dec.ok THEN updateAudit(keyAudits, id, TRUE, now)
                                 ELSE keyAudits
                 /\ UNCHANGED secretStore

\* getDerivedKey after the salt was read: when there was none it draws one and
\* issues the write (`await this.secretStorage.store(salt, newSalt)`), else it
\* goes on with the salt it read
SaltRead(p) ==
    /\ procs[p].stage = "salt"
    /\ IF procs[p].salt = <<>>
       THEN /\ \E newSalt \in RaceSalts :
                /\ secretStore' = Put(secretStore, SaltKey, newSalt)
                /\ procs' = [procs EXCEPT ![p].stage = "saltStored",
                                          ![p].salt = newSalt]
            /\ UNCHANGED keyAudits
       ELSE KeyDerived(p, procs[p].salt)
    /\ UNCHANGED <<machineId, now, pc, last, stored, successes, retry, mapped,
                   modelConfigs>>

\* getDerivedKey after its write of the new salt
SaltStored(p) ==
    /\ procs[p].stage = "saltStored"
    /\ KeyDerived(p, procs[p].salt)
    /\ UNCHANGED <<machineId, now, pc, last, stored, successes, retry, mapped,
                   modelConfigs>>

\* storeKey after its write of the envelope: initializeRotation issues the
\* write of the rotation record
EnvelopeStored(p) ==
    /\ procs[p].op = "storeKey"
    /\ procs[p].stage = "envelope"
    /\ secretStore' = initializeRotation(secretStore, ProcId(p), now)
    /\ procs' = [procs EXCEPT ![p].stage = "rotation"]
    /\ UNCHANGED <<keyAudits, machineId, now, pc, last, stored, successes, retry,
                   mapped, modelConfigs>>

\* storeKey returns
RotationStored(p) ==
    /\ procs[p].op = "storeKey"
    /\ procs[p].stage = "rotation"
    /\ procs' = [procs EXCEPT ![p] = Ended(@, "ok", "", <<>>)]
    /\ stored' = [stored EXCEPT ![ProcId(p)] = procs[p].apiKey]
    /\ UNCHANGED <<secretStore, keyAudits, machineId, now, pc, last, successes,
                   retry, mapped, modelConfigs>>

\* deleteKey(id) up to `await this.secretStorage.delete(envelope)`
CallDeleteKey(p) ==
    /\ procs[p].stage = "idle"
    /\ procs[p].calls < MaxCalls
    /\ secretStore' = Remove(secretStore, EnvelopeKey(ProcId(p)))
    /\ procs' = [procs EXCEPT ![p] =
            [@ EXCEPT !.stage = "envelope", !.op = "deleteKey", !.apiKey = <<>>,
                      !.calls = @ + 1, !.status = "pending", !.err = "",
                      !.val = <<>>]]
    /\ UNCHANGED <<keyAudits, machineId, now, pc, last, stored, successes, retry,
                   mapped, modelConfigs>>

\* deleteKey after the envelope: issues the delete of the rotation record
EnvelopeDeleted(p) ==
    /\ procs[p].op = "deleteKey"
    /\ procs[p].stage = "envelope"
    /\ secretStore' = Remove(secretStore, RotationKey(ProcId(p)))
    /\ procs' = [procs EXCEPT ![p].stage = "rotation"]
    /\ UNCHANGED <<keyAudits, machineId, now, pc, last, stored, successes, retry,
                   mapped, modelConfigs>>

\* deleteKey drops the audit entry and returns
RotationDeleted(p) ==
    /\ procs[p].op = "deleteKey"
    /\ procs[p].stage = "rotation"
    /\ keyAudits' = Remove(keyAudits, hashKeyId(ProcId(p)))
    /\ procs' = [procs EXCEPT ![p] = Ended(@, "ok", "", <<>>)]
    /\ stored' = [stored EXCEPT ![ProcId(p)] = <<>>]
    /\ UNCHANGED <<secretStore, machineId, now, pc, last, successes, retry,
                   mapped, modelConfigs>>

(***************************************************************************)
(* Model configurations: saveModelConfig and removeModelConfig.            *)
(***************************************************************************)
\* saveModelConfig: the configuration is written to globalState first, then
\* storeAPIKey runs; when storeKey throws, the configuration stays written
SaveModelConfig(modelId, providerName, config, authType) ==
    /\ pc.stage = "idle"
    /\ modelConfigs' = [modelConfigs EXCEPT ![providerName] =
            Put(getStoredModelConfigs(modelConfigs, providerName), modelId,
                configToSave(config))]
    /\ IF authType = "None"
       THEN /\ last' = Outcome("saveModelConfig", modelId, config.apiKey, "ok", "",
                               <<>>, "void", authType)
            /\ UNCHANGED <<secretStore, stored>>
       ELSE \E iv \in RandomIVs, newSalt \in SaltDraws(secretStore) :
            LET keyId == AuthKeyIdOf(providerName, authType, modelId)
                r == storeKey(secretStore, machineId, keyId, config.apiKey, now, iv, newSalt)
            IN  /\ secretStore' = r.store
                /\ last' = Outcome("saveModelConfig", modelId, config.apiKey, r.status,
                                   r.err, <<>>, "void", authType)
                /\ stored' = IF r.status = "ok"
                             THEN [stored EXCEPT ![keyId] = config.apiKey] ELSE stored
    /\ UNCHANGED <<keyAudits, machineId, now, pc, successes, retry, mapped, procs>>

RemoveModelConfig(modelId, providerName, isDeletingCustomModel) ==
    /\ pc.stage = "idle"
    /\ LET r == removeModelConfig(modelConfigs, secretStore, modelId, providerName, isDeletingCustomModel)
       IN  /\ modelConfigs' = r.configs
           /\ secretStore' = r.store
           /\ last' = Outcome("removeModelConfig", modelId, <<>>, r.status, r.err, <<>>,
                              "void", IF isDeletingCustomModel THEN "deleting" ELSE "")
    /\ UNCHANGED <<keyAudits, machineId, now, pc, stored, successes, retry, mapped,
                   procs>>

(***************************************************************************)
(* Specifications.                                                         *)
(***************************************************************************)
\* the SecureKeyManager alone, on a store nobody else writes
Next ==
    \/ \E id \in KeyIds, k \in Secrets : StoreKey(id, k)
    \/ \E id \in KeyIds : GetKey(id)
    \/ \E id \in KeyIds : DeleteKey(id)
    \/ \E id \in KeyIds : CheckRotationNeeded(id)

Spec == Init /\ [][Next]_vars

\* the SecureKeyManager with envelopes changed from outside and a machine id
\* that changes
NextEnv ==
    \/ \E k \in {KeyA, ShortKey} : StoreKey("acme", k)
    \/ GetKey("acme")
    \/ DeleteKey("acme")
    \/ TamperEnvelope("acme")
    \/ \E m \in MachineIds : ChangeMachine(m)

SpecEnv == Init /\ [][NextEnv]_vars

\* the BYOKStorageService over a store that holds legacy entries
NextStorage ==
    \/ \E p \in Providers, m \in ModelIds : GetAPIKey(p, m)
    \/ MigrateStore
    \/ MigrateDelete
    \/ \E p \in Providers, m \in ModelIds, a \in AuthTypes : StoreAPIKey(p, KeyA, a, m)
    \/ \E p \in Providers, m \in ModelIds, a \in AuthTypes : DeleteAPIKey(p, a, m)
    \/ \E p \in Providers, m \in ModelIds, k \in LegacySecrets : LegacyStore(p, m, k)

SpecStorage == Init /\ [][NextStorage]_vars

\* the SecureKeyManager on one identifier while the clock advances
NextRotation ==
    \/ \E k \in {KeyA, ShortKey} : StoreKey("acme", k)
    \/ DeleteKey("acme")
    \/ CheckRotationNeeded("acme")
    \/ \E ticks \in ClockSteps : AdvanceClock(ticks)

SpecRotation == Init /\ [][NextRotation]_vars

\* classified errors constructed directly and by the provider mappers
NextErrors ==
    \/ \E p \in ProviderNames, d \in DetailsInputs : NewAuthenticationError(p, d)
    \/ \E p \in ProviderNames, ra \in RetryAfterInputs, d \in DetailsInputs :
            NewRateLimitError(p, ra, d)
    \/ \E p \in ProviderNames,
          e \in {UndefinedValue, CodedError("ECONNRESET", "socket hang up")} :
            NewNetworkError(p, e)
    \/ \E p \in ProviderNames : NewModelNotFoundError("test-model", p)
    \/ \E p \in ProviderNames, d \in DetailsInputs :
            NewInvalidRequestError("bad request", p, d)
    \/ \E p \in ProviderNames, q \in QuotaTypes : NewQuotaExceededError(p, q)
    \/ ProviderFails
    \/ MapAnthropicError
    \/ MapOpenAIError
    \/ MapGeminiError
    \/ ErrorHandled

SpecErrors == Init /\ [][NextErrors]_vars

\* calls of executeWithRetry, one at a time
NextRetry ==
    \/ \E options \in OptionsInputs : ExecuteWithRetry(options)
    \/ FnReturns
    \/ \E error \in FnErrors, random \in RandomDraws : FnThrows(error, random)
    \/ DelayElapses
    \/ Cancel

SpecRetry == Init /\ [][NextRetry]_vars

\* the same, where the operation settles and the timer fires
SpecRetryFair ==
    /\ Init
    /\ [][NextRetry]_vars
    /\ WF_vars(FnReturns \/ \E error \in FnErrors, random \in RandomDraws :
                                FnThrows(error, random))
    /\ WF_vars(DelayElapses)

\* two callers of one SecureKeyManager whose calls overlap
NextConcurrent ==
    \/ \E p \in Procs, k \in {KeyA, ShortKey} : CallStoreKey(p, k)
    \/ \E p \in Procs : CallGetKey(p)
    \/ \E p \in Procs : CallDeleteKey(p)
    \/ \E p \in Procs : EnvelopeRead(p)
    \/ \E p \in Procs : SaltRead(p)
    \/ \E p \in Procs : SaltStored(p)
    \/ \E p \in Procs : EnvelopeStored(p)
    \/ \E p \in Procs : RotationStored(p)
    \/ \E p \in Procs : EnvelopeDeleted(p)
    \/ \E p \in Procs : RotationDeleted(p)

SpecConcurrent == Init /\ [][NextConcurrent]_vars

\* the BYOKStorageService with model configurations saved and removed
NextConfig ==
    \/ \E m \in ConfigModelIds, p \in Providers, c \in ConfigInputs :
           \E a \in ConfigAuthTypes(m) : SaveModelConfig(m, p, c, a)
    \/ \E m \in ConfigModelIds, p \in Providers, d \in BOOLEAN : RemoveModelConfig(m, p, d)
    \/ \E p \in Providers, m \in ModelIds : GetAPIKey(p, m)

SpecConfig == Init /\ [][NextConfig]_vars

\* the BYOKStorageService on the provider's key, with envelopes changed from
\* outside, a machine id that changes and legacy entries left behind
NextStorageEnv ==
    \/ \E a \in AuthTypes : StoreAPIKey("acme", KeyA, a, "")
    \/ GetAPIKey("acme", "")
    \/ MigrateStore
    \/ MigrateDelete
    \/ \E k \in LegacySecrets : LegacyStore("acme", "", k)
    \/ TamperEnvelope("acme")
    \/ \E m \in MachineIds : ChangeMachine(m)

SpecStorageEnv == Init /\ [][NextStorageEnv]_vars

\* provider/model scopes, one of them a provider whose name contains the
\* separator '-', and the key each scope stores
Scopes == {<<"acme", "">>, <<"acme", "gpt">>, <<"acme-gpt", "">>}
ScopeAuthType(s) == IF s[2] # "" THEN "PerModelDeployment" ELSE "GlobalApiKey"
ScopeSecret(s) == IF s[1] = "acme" THEN KeyA ELSE KeyB

\* the BYOKStorageService used for a model of one provider and for another
\* provider
NextScopes ==
    \/ \E s \in Scopes : StoreAPIKey(s[1], ScopeSecret(s), ScopeAuthType(s), s[2])
    \/ \E s \in Scopes : GetAPIKey(s[1], s[2])
    \/ \E s \in Scopes : DeleteAPIKey(s[1], ScopeAuthType(s), s[2])

SpecScopes == Init /\ [][NextScopes]_vars

(***************************************************************************)
(* Properties.                                                             *)
(***************************************************************************)
\* the secret the envelope of modelId opens to under the current key is v
Opens(store, machine, modelId, v) ==
    /\ Has(store, EnvelopeKey(modelId))
    /\ Has(store, SaltKey)
    /\ LET d == Decrypt(store[EnvelopeKey(modelId)],
                        getDerivedKey(store, machine, <<>>).key)
       IN  d.ok /\ d.text = v

\* nothing is kept for modelId: no envelope, no rotation record, no audit entry
NothingKept(store, audits, modelId) ==
    /\ ~Has(store, EnvelopeKey(modelId))
    /\ ~Has(store, RotationKey(modelId))
    /\ ~HasAudit(audits, modelId)

\* the shape check as the specification words it: at least 20 characters, all
\* of them letters, digits, '_' or '-'
ShapeOK(k) ==
    /\ Len(k) >= 20
    /\ \A i \in 1..Len(k) :
        k[i] \in (65..90) \cup (97..122) \cup (48..57) \cup {95, 45}

LegacyKeys ==
    {LegacyModelKey(p, m) : p \in Providers, m \in ModelIds \ {""}}
    \cup {LegacyProviderKey(p) : p \in Providers}

C2_LegacyMigrates ==
    (last.op = "getAPIKey" /\ last.via = "legacy" /\ last.status # "pending")
        => /\ last.status = "ok"
           /\ last.val = last.arg
           /\ Opens(secretStore, machineId, last.id, last.arg)

\* C3: during a migration the legacy entry is deleted only by the step that
\* follows a successful re-store, whose envelope opens to the migrated secret;
\* a failed re-store ends the call with the legacy entry still in place; so
\* while a migration is under way a copy of the secret is always stored.
C3_CopyKept ==
    pc.stage \in {"store", "delete"}
        => \/ (Has(secretStore, pc.legacyKey) /\ secretStore[pc.legacyKey] = pc.value)
           \/ Opens(secretStore, machineId, pc.keyId, pc.value)

C3_DeleteAfterStore ==
    /\ \A k \in LegacyKeys :
        (Has(secretStore, k) /\ ~Has(secretStore', k))
            => /\ pc.stage = "delete"
               /\ pc.legacyKey = k
               /\ Opens(secretStore, machineId, pc.keyId, secretStore[k])
               /\ Opens(secretStore', machineId', pc.keyId, secretStore[k])
    /\ (pc.stage = "store" /\ pc'.stage = "idle")
            => /\ last'.status = "threw"
               /\ Has(secretStore', pc.legacyKey)
               /\ secretStore'[pc.legacyKey] = pc.value

\* C3: during a legacy migration the secret is never without a copy: the
\* legacy entry is deleted only in a step that follows a successful storeKey,
\* and when storeKey throws the legacy entry is left as it was.
C3_MigrationKeepsACopy == [](C3_CopyKept) /\ [][C3_DeleteAfterStore]_vars

C3_Witness ==
    /\ pc.stage = "delete"
    /\ Has(secretStore, pc.legacyKey)
    /\ Opens(secretStore, machineId, pc.keyId, pc.value)

\* C4: getKey on an envelope that is not one the current key sealed (its
\* ciphertext or tag was altered, or another derived key sealed it) throws,
\* returns no plaintext and records nothing in the audit ledger.
C4_TamperRejected ==
    [][(/\ last'.op = "getKey"
        /\ Has(secretStore, EnvelopeKey(last'.id))
        /\ ~Authentic(secretStore, machineId, last'.id))
            => /\ last'.status = "threw"
               /\ last'.val = <<>>
               /\ last'.out = "void"
               /\ keyAudits' = keyAudits]_vars

C4_Witness ==
    /\ last.op = "getKey"
    /\ last.status = "threw"
    /\ last.err = AuthFailed
    /\ HasAudit(keyAudits, last.id)

\* C5: storeKey with a secret that fails the shape check throws 'Invalid API
\* key format' and leaves the secret store (envelopes, rotation records, salt)
\* and the audit ledger exactly as they were.
C5_InvalidWritesNothing ==
    [][(last'.op = "storeKey" /\ ~ShapeOK(last'.arg))
            => /\ last'.status = "threw"
               /\ last'.err = "Invalid API key format"
               /\ secretStore' = secretStore
               /\ keyAudits' = keyAudits]_vars

C5_Witness ==
    /\ last.op = "storeKey"
    /\ last.arg = DotKey
    /\ last.err = "Invalid API key format"
    /\ ~Has(secretStore, SaltKey)

\* C6 (as claimed): storeKey accepts the 18-character key 'test-api-key-12345'
\* of the test suite and stores it.
C6_TestKeyAccepted ==
    (last.op = "storeKey" /\ last.arg = TestKey)
        => (last.status = "ok" /\ Has(secretStore, EnvelopeKey(last.id)))

\* C7: getKey(id) throws 'No API key found for model: <id>' whenever no
\* envelope is stored for id.
C7_MissingKeyNotFound ==
    [][(last'.op = "getKey" /\ ~Has(secretStore, EnvelopeKey(last'.id)))
            => /\ last'.status = "threw"
               /\ last'.err = "No API key found for model: " \o last'.id]_vars

C7_Witness ==
    /\ last.op = "getKey"
    /\ last.err = "No API key found for model: acme-gpt"
    /\ Has(secretStore, EnvelopeKey("acme"))

\* C8: from a deleteKey(id) until id is stored again nothing is kept for id:
\* getKey(id) throws not found, getAudit(id) is absent and
\* checkRotationNeeded(id) returns false.
C8_DeleteRemovesAll ==
    \A id \in KeyIds :
        stored[id] = <<>>
            => /\ NothingKept(secretStore, keyAudits, id)
               /\ LET g == getKey(secretStore, keyAudits, machineId, id, now, <<>>)
                  IN  g.status = "threw" /\ g.err = "No API key found for model: " \o id
               /\ LET c == checkRotationNeeded(secretStore, id, now)
                  IN  c.status = "ok" /\ ~c.needed

C8_Witness ==
    /\ last.op = "deleteKey"
    /\ last.arg # <<>>
    /\ stored[last.id] = <<>>

\* C9: deleteKey(id) with nothing kept for id, or right after a deleteKey(id),
\* completes without error and changes neither the secret store nor the
\* audit ledger.
C9_DeleteIdempotent ==
    [][(/\ last'.op = "deleteKey"
        /\ \/ NothingKept(secretStore, keyAudits, last'.id)
           \/ (last.op = "deleteKey" /\ last.id = last'.id))
            => /\ last'.status = "ok"
               /\ secretStore' = secretStore
               /\ keyAudits' = keyAudits]_vars

C9_Witness ==
    /\ last.op = "deleteKey"
    /\ last.status = "ok"
    /\ last.arg = <<>>
    /\ Has(secretStore, SaltKey)

\* C10: an identifier has no audit entry until its first successful getKey
\* since the last deleteKey; after n >= 1 such calls its requestCount is n and
\* its failedAttempts is 0.
C10_AuditCounts ==
    \A id \in KeyIds :
        IF successes[id] = 0
        THEN ~HasAudit(keyAudits, id)
        ELSE /\ HasAudit(keyAudits, id)
             /\ getAudit(keyAudits, id).requestCount = successes[id]
             /\ getAudit(keyAudits, id).failedAttempts = 0

C10_Witness ==
    \E id \in KeyIds :
        /\ successes[id] = 2
        /\ HasAudit(keyAudits, id)
        /\ last.op = "getKey"

\* the counts of the audit entry of id, 0 and 0 when it has none
AuditCounts(audits, id) ==
    IF HasAudit(audits, id)
    THEN [requestCount |-> getAudit(audits, id).requestCount,
          failedAttempts |-> getAudit(audits, id).failedAttempts]
    ELSE [requestCount |-> 0, failedAttempts |-> 0]

\* C11: a getKey(id) that fails is recorded in the audit ledger: it adds one
\* to the requestCount and one to the failedAttempts of id (after one success
\* and one failure: requestCount = 2, failedAttempts = 1).
C11_FailureRecorded ==
    [][(last'.op = "getKey" /\ last'.status = "threw")
            => /\ HasAudit(keyAudits', last'.id)
               /\ AuditCounts(keyAudits', last'.id).requestCount
                    = AuditCounts(keyAudits, last'.id).requestCount + 1
               /\ AuditCounts(keyAudits', last'.id).failedAttempts
                    = AuditCounts(keyAudits, last'.id).failedAttempts + 1]_vars

RotationDue(store, id, t) ==
    /\ Has(store, RotationKey(id))
    /\ LET record == JSONParse(store[RotationKey(id)])
       IN  /\ record.autoRotateAfterDays # 0
           /\ (t - record.lastRotated.time) \div TicksPerDay
                >= record.autoRotateAfterDays

C14_RetriesUntilSuccess ==
    retry.opts.shouldRetry = "always"
        => /\ retry.stage = "returned"
                => /\ retry.value = "success"
                   /\ retry.calls = retry.failures + 1
           /\ retry.stage = "threw" => retry.failures = retry.opts.maxRetries + 1
           /\ retry.stage \in {"calling", "waiting"}
                => retry.failures <= retry.opts.maxRetries

C14_Witness ==
    /\ retry.stage = "returned"
    /\ retry.opts.shouldRetry = "always"
    /\ retry.opts.maxRetries = 3
    /\ retry.failures = 2
    /\ retry.calls = 3

C15_CallsBounded == retry.calls <= retry.opts.maxRetries + 1

C15_GivesUpAtOnce ==
    (/\ retry.stage = "calling"
     /\ retry'.failures = retry.failures + 1
     /\ \/ retry.calls = retry.opts.maxRetries + 1
        \/ ~ShouldRetry(retry.opts, retry'.raised.err))
        => /\ retry'.stage = "threw"
           /\ retry'.calls = retry.calls
           /\ retry'.waits = retry.waits

\* C15: executeWithRetry always finishes and never invokes the operation more
\* than maxRetries + 1 times: a failure on the attempt that reaches
\* maxRetries, or one the predicate rejects, is raised at once, with no
\* further attempt and no further wait.
C15_AlwaysFinishes ==
    /\ [](C15_CallsBounded)
    /\ [][C15_GivesUpAtOnce]_vars
    /\ (retry.stage \in {"calling", "waiting"}) ~> (retry.stage \in {"returned", "threw"})

C15_Witness ==
    /\ retry.stage = "threw"
    /\ retry.opts.maxRetries = 3
    /\ retry.calls = 4
    /\ retry.waits = 3

C17_BackoffDelay ==
    /\ retry.stage = "calling" => retry.waits = retry.calls - 1
    /\ retry.stage = "waiting"
        => /\ retry.waits = retry.calls
           /\ LET base == retry.opts.initialDelayMs
                            * Pow(retry.opts.backoffMultiplier, retry.calls - 1)
                            * DelayUnits
                  cap == retry.opts.maxDelayMs * DelayUnits
              IN  /\ Min(base, cap) <= retry.delay
                  /\ retry.delay <= Min(base + base \div 10, cap)
                  /\ retry.delay <= cap

C17_Witness ==
    /\ retry.stage = "waiting"
    /\ retry.waits = 2
    /\ retry.delay = retry.opts.maxDelayMs * DelayUnits
    /\ retry.opts.initialDelayMs * Pow(retry.opts.backoffMultiplier, retry.calls - 1)
            < retry.opts.maxDelayMs

\* C18: once cancellation has been signalled, executeWithRetry starts no
\* further attempt of the operation and begins no further backoff wait.
C18_CancelStops ==
    [][(retry.cancelled /\ retry.stage \in {"calling", "waiting"})
            => /\ retry'.calls = retry.calls
               /\ retry'.waits = retry.waits]_vars

C20_RetryableByKind ==
    (mapped.result.status = "ok" /\ mapped.result.val.kind = "BYOKError")
        => LET e == mapped.result.val
           IN  /\ e.code \in {"AUTH_FAILED", "MODEL_NOT_FOUND", "INVALID_REQUEST",
                              "QUOTA_EXCEEDED", "UNKNOWN_ERROR"}
                    => ~e.isRetryable
               /\ e.code \in {"RATE_LIMIT", "NETWORK_ERROR"} => e.isRetryable

C20_Witness ==
    /\ mapped.by = "mapOpenAIError"
    /\ mapped.result.status = "ok"
    /\ mapped.result.val.kind = "BYOKError"
    /\ mapped.result.val.code = "RATE_LIMIT"
    /\ mapped.result.val.isRetryable

\* the status a mapper dispatches on, as the specification words it:
\* error.status, or else error.response.status
StatusOf(error) == IF error.status # 0 THEN error.status ELSE error.responseStatus

\* C21: mapAnthropicError, reading the status from error.status or else
\* error.response.status, maps 401 to AUTH_FAILED (not retryable), 429 to
\* RATE_LIMIT (retryable, with the retry-after value of the response in
\* details.retryAfter), 404 to MODEL_NOT_FOUND and 400 to INVALID_REQUEST.
C21_AnthropicStatuses ==
    (mapped.by = "mapAnthropicError" /\ mapped.input # UndefinedValue)
        => LET status == StatusOf(mapped.input)
               r == mapped.result
           IN  /\ status = 401
                    => /\ r.status = "ok"
                       /\ r.val.code = "AUTH_FAILED"
                       /\ ~r.val.isRetryable
               /\ status = 429
                    => /\ r.status = "ok"
                       /\ r.val.code = "RATE_LIMIT"
                       /\ r.val.isRetryable
                       /\ r.val.details.retryAfter = mapped.input.retryAfter
               /\ status = 404 => (r.status = "ok" /\ r.val.code = "MODEL_NOT_FOUND")
               /\ status = 400 => (r.status = "ok" /\ r.val.code = "INVALID_REQUEST")

C21_Witness ==
    /\ mapped.by = "mapAnthropicError"
    /\ mapped.input # UndefinedValue
    /\ mapped.input.status = 0
    /\ mapped.input.responseStatus = 429
    /\ mapped.input.retryAfter = 60
    /\ mapped.result.val.code = "RATE_LIMIT"
    /\ mapped.result.val.details.retryAfter = 60

\* the input matches one of the statuses, codes or reasons the mapper knows
KnownPattern(by, error) ==
    CASE by = "mapAnthropicError" ->
            \/ StatusOf(error) \in {401, 429, 404, 400}
            \/ error.code \in {"ENOTFOUND", "ECONNREFUSED"}
      [] by = "mapOpenAIError" ->
            \/ OrStr(error.errorCode, error.code)
                    \in {"invalid_api_key", "rate_limit_exceeded", "model_not_found",
                         "quota_exceeded"}
            \/ StatusOf(error) = 503
      [] OTHER ->
            \/ error.reason \in {"API_KEY_INVALID", "RATE_LIMIT_EXCEEDED",
                                 "RESOURCE_EXHAUSTED"}
            \/ StatusOf(error) = 404

\* C22: each provider mapper is total: for every input it returns a
\* classified error and never raises, and an input that matches none of its
\* known statuses, codes or reasons is classified UNKNOWN_ERROR, not
\* retryable.
C22_MappersTotal ==
    mapped.by \in {"mapAnthropicError", "mapOpenAIError", "mapGeminiError"}
        => /\ mapped.result.status = "ok"
           /\ mapped.result.val.kind = "BYOKError"
           /\ (mapped.input # UndefinedValue /\ ~KnownPattern(mapped.by, mapped.input))
                => /\ mapped.result.val.code = "UNKNOWN_ERROR"
                   /\ ~mapped.result.val.isRetryable

\* the codes of the seven kinds of the taxonomy
TaxonomyCodes ==
    {"AUTH_FAILED", "RATE_LIMIT", "NETWORK_ERROR", "MODEL_NOT_FOUND",
     "INVALID_REQUEST", "QUOTA_EXCEEDED", "UNKNOWN_ERROR"}

\* C23: the code of every classified error made by a constructor or a
\* provider mapper is one of the seven kinds of the taxonomy.
C23_ClosedTaxonomy ==
    (mapped.result.status = "ok" /\ mapped.result.val.kind = "BYOKError")
        => mapped.result.val.code \in TaxonomyCodes

\* every caller is between calls
AllEnded == \A p \in Procs : procs[p].stage = "idle"

C25_SaltWrittenOnce ==
    [][Has(secretStore, SaltKey) =>
          /\ Has(secretStore', SaltKey)
          /\ secretStore'[SaltKey] = secretStore[SaltKey]]_vars

\* the step is a removeModelConfig call on a model that has a configuration
RemovesExisting ==
    /\ last'.op = "removeModelConfig"
    /\ Has(modelConfigs["acme"], last'.id)

C28_RemoveCases ==
    [][RemovesExisting =>
        LET m == last'.id
            old == modelConfigs["acme"]
            new == modelConfigs'["acme"]
        IN  /\ IF last'.via = "deleting" \/ ~old[m].isCustomModel
               THEN ~Has(new, m)
               ELSE Has(new, m) /\ new[m] = [old[m] EXCEPT !.isRegistered = FALSE]
            /\ DOMAIN new \ {m} = DOMAIN old \ {m}
            /\ \A o \in DOMAIN old \ {m} : new[o] = old[o]]_vars

\* a custom model was unregistered and kept, beside another model's
\* configuration
C28_Witness ==
    /\ last.op = "removeModelConfig"
    /\ last.via = ""
    /\ Has(modelConfigs["acme"], last.id)
    /\ modelConfigs["acme"][last.id].isCustomModel
    /\ ~modelConfigs["acme"][last.id].isRegistered
    /\ DOMAIN modelConfigs["acme"] = ConfigModelIds

\* the envelope of modelId is stored and the current key does not open it
Undecryptable(store, machine, modelId) ==
    /\ Has(store, EnvelopeKey(modelId))
    /\ Has(store, SaltKey)
    /\ ~Decrypt(store[EnvelopeKey(modelId)], getDerivedKey(store, machine, <<>>).key).ok

C31_ScopesIsolated ==
    [][GetAPIKey("acme", "gpt") => last'.val # ScopeSecret(<<"acme-gpt", "">>)]_vars

C33_DeleteThenLookup ==
    [][\A m \in ModelIds :
        (/\ last.op = "deleteAPIKey"
         /\ last.status = "ok"
         /\ last.id # ""
         /\ last.via = m
         /\ GetAPIKey("acme", m))
        => /\ last'.status = "ok"
           /\ last'.out = "undefined"]_vars

\* C34: classification keeps connection failures retryable: a raw error that
\* the default retry predicate retries is mapped by every mapper to a
\* classified error with isRetryable = true.
C34_RetryabilityPreserved ==
    (/\ mapped.by \in {"mapAnthropicError", "mapOpenAIError", "mapGeminiError"}
     /\ mapped.input # UndefinedValue
     /\ DefaultShouldRetry(mapped.input))
        => /\ mapped.result.status = "ok"
           /\ DefaultShouldRetry(mapped.result.val)

\* C35: an executeWithRetry call that has ended has invoked the operation at
\* least once, and an error it raised is one the operation raised on some
\* attempt.
C35_CalledAtLeastOnce ==
    retry.stage \in {"returned", "threw"}
        => /\ retry.calls >= 1
           /\ retry.stage = "threw"
                => /\ retry.thrown.at \in 1..retry.calls
                   /\ retry.thrown.err # UndefinedValue

\* C36: a saveModelConfig call that fails because the API key is badly
\* formatted leaves the stored model configurations as they were.
C36_SaveAllOrNothing ==
    [][(/\ last'.op = "saveModelConfig"
        /\ last'.status = "threw"
        /\ last'.err = InvalidFormat)
       => modelConfigs' = modelConfigs]_vars

\* C37: removeModelConfig for a model without a stored configuration
\* completes without error and changes neither the configurations nor the
\* secret store.
C37_RemoveMissingIsNoop ==
    [][(/\ last'.op = "removeModelConfig"
        /\ ~Has(modelConfigs["acme"], last'.id))
       => /\ last'.status = "ok"
          /\ modelConfigs' = modelConfigs
          /\ secretStore' = secretStore]_vars

\* C38: after any sequence of storeKey, getKey, deleteKey and
\* checkRotationNeeded calls, an identifier has a rotation record iff it has
\* an envelope, and has an audit entry only if it has an envelope.
C38_RecordsFollowEnvelope ==
    \A id \in KeyIds :
        /\ Has(secretStore, RotationKey(id)) <=> Has(secretStore, EnvelopeKey(id))
        /\ HasAudit(keyAudits, id) => Has(secretStore, EnvelopeKey(id))

\* one identifier holds envelope, rotation record and audit entry while the
\* key of another, which had been read, was deleted
C38_Witness ==
    /\ last.op = "deleteKey"
    /\ last.arg # <<>>
    /\ ~Has(secretStore, EnvelopeKey(last.id))
    /\ \E id \in KeyIds \ {last.id} :
        /\ Has(secretStore, EnvelopeKey(id))
        /\ Has(secretStore, RotationKey(id))
        /\ HasAudit(keyAudits, id)

\* C39: storeKey never changes the audit ledger, whether it stores, re-stores
\* or throws; a step that changes the ledger is a getKey or a deleteKey.
C39_StoreKeepsLedger ==
    [][/\ last'.op = "storeKey" => keyAudits' = keyAudits
       /\ keyAudits' # keyAudits => last'.op \in {"getKey", "deleteKey"}]_vars

\* a secret was re-stored for an identifier that has an audit entry
C39_Witness ==
    /\ last.op = "storeKey"
    /\ last.status = "ok"
    /\ HasAudit(keyAudits, last.id)
    /\ getAudit(keyAudits, last.id).requestCount = 2

\* what is kept for modelId: envelope, rotation record and audit entry
KeptFor(store, audits, modelId) ==
    <<Get(store, EnvelopeKey(modelId)), Get(store, RotationKey(modelId)),
      IF HasAudit(audits, modelId) THEN <<getAudit(audits, modelId)>> ELSE <<>>>>

\* C40: storeKey, getKey and deleteKey on one identifier leave what is kept
\* for every other identifier unchanged, and the stored secret of every other
\* identifier is opened by getKey as before.
C40_OthersUntouched ==
    [][last'.op \in {"storeKey", "getKey", "deleteKey"} =>
        \A other \in KeyIds \ {last'.id} :
            /\ KeptFor(secretStore', keyAudits', other) = KeptFor(secretStore, keyAudits, other)
            /\ Opens(secretStore, machineId, other, stored[other])
                => Opens(secretStore', machineId', other, stored'[other])]_vars

\* a key was read while another identifier holds a key that was read before
C40_Witness ==
    /\ last.op = "getKey"
    /\ last.status = "ok"
    /\ \E other \in KeyIds \ {last.id} :
        /\ HasAudit(keyAudits, other)
        /\ stored[other] = KeyB
        /\ Opens(secretStore, machineId, other, KeyB)

=============================================================================
